---- MODULE Spec2Model ----
(***************************************************************************)
(* Closed-loop head tracking of the Reachy Mini demos: the PID axis        *)
(* controllers, the position filter, the voice activity gate, the target   *)
(* selector and the tracker ticks that combine them.                       *)
(*                                                                         *)
(* Real numbers are exact rationals <<numerator, denominator>> in lowest   *)
(* terms with a positive denominator; None is the empty tuple.             *)
(***************************************************************************)
EXTENDS Integers, Sequences, FiniteSets, TLC

VARIABLES
    prog,       \* which object / program the run drives
    yaw,        \* HeadYawController fields
    pitch,      \* HeadPitchController fields
    ot,         \* ObjectTracker PID fields (pid-only tracker)
    filt,       \* PositionFilter fields
    vad,        \* VoiceActivityDetector fields
    trk,        \* tracker fields: is_tracking, last_detection_time, last_time
    kal,        \* KalmanTracker fields
    snd,        \* SoundTracker fields, its PID, gate and commands
    th,         \* web variant: position and locals of the loop thread, the lock
    exc,        \* an exception escaped the last call
    now,        \* wall clock, in clock ticks
    cmds,       \* actuator commands issued so far
    op,         \* the last call and its arguments
    ret,        \* what the last call returned
    hist,       \* observation log of the run (calls made, in order)
    n           \* number of calls made

vars == <<prog, yaw, pitch, ot, filt, vad, trk, kal, snd, th, exc, now, cmds, op, ret, hist, n>>

-----------------------------------------------------------------------------
(* Bounds of the exploration *)

MaxOps == 4
MaxFilterCalls == 4
MaxVadCalls == 5
MaxDets == 3
MaxTicks == 3

-----------------------------------------------------------------------------
(* Exact rational arithmetic *)

None == <<>>

Abs(i) == IF i < 0 THEN -i ELSE i

RECURSIVE GCD(_, _)
GCD(a, b) == IF b = 0 THEN a ELSE GCD(b, a % b)

Frac(num, den) ==
    LET g == GCD(Abs(num), Abs(den))
        s == IF den < 0 THEN -1 ELSE 1
    IN  <<(s * num) \div g, (s * den) \div g>>

R(i) == <<i, 1>>

RAdd(a, b) == Frac(a[1] * b[2] + b[1] * a[2], a[2] * b[2])
RSub(a, b) == Frac(a[1] * b[2] - b[1] * a[2], a[2] * b[2])
RMul(a, b) == Frac(a[1] * b[1], a[2] * b[2])
RDiv(a, b) == Frac(a[1] * b[2], a[2] * b[1])
RNeg(a) == <<-a[1], a[2]>>
RAbs(a) == <<Abs(a[1]), a[2]>>
RLt(a, b) == a[1] * b[2] < b[1] * a[2]
RLe(a, b) == a[1] * b[2] <= b[1] * a[2]
RMin(a, b) == IF RLt(b, a) THEN b ELSE a
RMax(a, b) == IF RLt(a, b) THEN b ELSE a

\* math.radians / math.degrees with pi taken as 22/7
PiApprox == Frac(22, 7)
Radians(deg) == RDiv(RMul(deg, PiApprox), R(180))
Degrees(rad) == RDiv(RMul(rad, R(180)), PiApprox)

-----------------------------------------------------------------------------
(* Axis controllers *)

FrameWidth == 640
FrameHeight == 480

DefaultGain == Frac(8, 100)
DefaultDeadZone == Frac(5, 100)
DefaultYawLimitDeg == 160
DefaultPitchLimitDeg == 35

HeadYawController_init(p, i, d) ==
    [pid_p |-> p, pid_i |-> i, pid_d |-> d,
     gain |-> DefaultGain,
     yaw_limit |-> Radians(R(DefaultYawLimitDeg)),
     dead_zone |-> DefaultDeadZone,
     current_yaw |-> R(0),
     integral |-> R(0),
     last_error |-> R(0)]

HeadPitchController_init(p, i, d) ==
    [pid_p |-> p, pid_i |-> i, pid_d |-> d,
     gain |-> DefaultGain,
     pitch_limit |-> Radians(R(DefaultPitchLimitDeg)),
     dead_zone |-> DefaultDeadZone,
     current_pitch |-> R(0),
     integral |-> R(0),
     last_error |-> R(0)]

\* (x - center) / center with center = frame_dimension / 2
normalize_to_center(x, frame_dim) ==
    LET center == RDiv(R(frame_dim), R(2))
    IN  RDiv(RSub(x, center), center)

\* compute() of the yaw controller: the controller after the call and the
\* value returned
HeadYawController_computeNoDeadZoneReturn(self, target_x, frame_width, dt) ==
    LET error == normalize_to_center(target_x, frame_width)
        p == RMul(self.pid_p, error)
        integral == RMax(R(-1), RMin(R(1), RAdd(self.integral, RMul(error, dt))))
        i == RMul(self.pid_i, integral)
        d == IF RLt(R(0), dt)
             THEN RDiv(RMul(self.pid_d, RSub(error, self.last_error)), dt)
             ELSE R(0)
        control == RMax(R(-1), RMin(R(1), RAdd(RAdd(p, i), d)))
        yaw_adjustment == RMul(RNeg(control), self.gain)
        new_yaw == RAdd(self.current_yaw, yaw_adjustment)
        limited == RMax(RNeg(self.yaw_limit), RMin(self.yaw_limit, new_yaw))
    IN  [self |-> [self EXCEPT !.integral = integral, !.last_error = error],
         ret |-> IF RLt(RAbs(error), self.dead_zone) THEN self.current_yaw ELSE limited]

HeadYawController_computeNoWindupClamp(self, target_x, frame_width, dt) ==
    LET error == normalize_to_center(target_x, frame_width)
    IN  IF RLt(RAbs(error), self.dead_zone)
        THEN [self |-> self, ret |-> self.current_yaw]
        ELSE
        LET p == RMul(self.pid_p, error)
            integral == RAdd(self.integral, RMul(error, dt))
            i == RMul(self.pid_i, RMax(R(-1), RMin(R(1), integral)))
            d == IF RLt(R(0), dt)
                 THEN RDiv(RMul(self.pid_d, RSub(error, self.last_error)), dt)
                 ELSE R(0)
            control == RMax(R(-1), RMin(R(1), RAdd(RAdd(p, i), d)))
            yaw_adjustment == RMul(RNeg(control), self.gain)
            new_yaw == RAdd(self.current_yaw, yaw_adjustment)
            limited == RMax(RNeg(self.yaw_limit), RMin(self.yaw_limit, new_yaw))
        IN  [self |-> [self EXCEPT !.integral = integral, !.last_error = error],
             ret |-> limited]

HeadYawController_computePositiveSign(self, target_x, frame_width, dt) ==
    LET error == normalize_to_center(target_x, frame_width)
    IN  IF RLt(RAbs(error), self.dead_zone)
        THEN [self |-> self, ret |-> self.current_yaw]
        ELSE
        LET p == RMul(self.pid_p, error)
            integral == RMax(R(-1), RMin(R(1), RAdd(self.integral, RMul(error, dt))))
            i == RMul(self.pid_i, integral)
            d == IF RLt(R(0), dt)
                 THEN RDiv(RMul(self.pid_d, RSub(error, self.last_error)), dt)
                 ELSE R(0)
            control == RMax(R(-1), RMin(R(1), RAdd(RAdd(p, i), d)))
            yaw_adjustment == RMul(control, self.gain)
            new_yaw == RAdd(self.current_yaw, yaw_adjustment)
            limited == RMax(RNeg(self.yaw_limit), RMin(self.yaw_limit, new_yaw))
        IN  [self |-> [self EXCEPT !.integral = integral, !.last_error = error],
             ret |-> limited]

\* compute() taking the derivative for every dt other than 0
HeadYawController_computeDerivativeNegativeDt(self, target_x, frame_width, dt) ==
    LET error == normalize_to_center(target_x, frame_width)
    IN  IF RLt(RAbs(error), self.dead_zone)
        THEN [self |-> self, ret |-> self.current_yaw]
        ELSE
        LET p == RMul(self.pid_p, error)
            integral == RMax(R(-1), RMin(R(1), RAdd(self.integral, RMul(error, dt))))
            i == RMul(self.pid_i, integral)
            d == IF dt # R(0)
                 THEN RDiv(RMul(self.pid_d, RSub(error, self.last_error)), dt)
                 ELSE R(0)
            control == RMax(R(-1), RMin(R(1), RAdd(RAdd(p, i), d)))
            yaw_adjustment == RMul(RNeg(control), self.gain)
            new_yaw == RAdd(self.current_yaw, yaw_adjustment)
            limited == RMax(RNeg(self.yaw_limit), RMin(self.yaw_limit, new_yaw))
        IN  [self |-> [self EXCEPT !.integral = integral, !.last_error = error],
             ret |-> limited]

HeadYawController_compute(self, target_x, frame_width, dt) ==
    LET error == normalize_to_center(target_x, frame_width)
    IN  IF RLt(RAbs(error), self.dead_zone)
        THEN [self |-> self, ret |-> self.current_yaw]
        ELSE
        LET p == RMul(self.pid_p, error)
            integral == RMax(R(-1), RMin(R(1), RAdd(self.integral, RMul(error, dt))))
            i == RMul(self.pid_i, integral)
            d == IF RLt(R(0), dt)
                 THEN RDiv(RMul(self.pid_d, RSub(error, self.last_error)), dt)
                 ELSE R(0)
            control == RMax(R(-1), RMin(R(1), RAdd(RAdd(p, i), d)))
            yaw_adjustment == RMul(RNeg(control), self.gain)
            new_yaw == RAdd(self.current_yaw, yaw_adjustment)
            limited == RMax(RNeg(self.yaw_limit), RMin(self.yaw_limit, new_yaw))
        IN  [self |-> [self EXCEPT !.integral = integral, !.last_error = error],
             ret |-> limited]

HeadYawController_update(self, new_yaw) == [self EXCEPT !.current_yaw = new_yaw]

HeadYawController_reset(self) ==
    [self EXCEPT !.current_yaw = R(0), !.integral = R(0), !.last_error = R(0)]

HeadPitchController_compute(self, target_y, frame_height, dt) ==
    LET error == normalize_to_center(target_y, frame_height)
    IN  IF RLt(RAbs(error), self.dead_zone)
        THEN [self |-> self, ret |-> self.current_pitch]
        ELSE
        LET p == RMul(self.pid_p, error)
            integral == RMax(R(-1), RMin(R(1), RAdd(self.integral, RMul(error, dt))))
            i == RMul(self.pid_i, integral)
            d == IF RLt(R(0), dt)
                 THEN RDiv(RMul(self.pid_d, RSub(error, self.last_error)), dt)
                 ELSE R(0)
            control == RMax(R(-1), RMin(R(1), RAdd(RAdd(p, i), d)))
            pitch_adjustment == RMul(control, self.gain)
            new_pitch == RAdd(self.current_pitch, pitch_adjustment)
            limited == RMax(RNeg(self.pitch_limit), RMin(self.pitch_limit, new_pitch))
        IN  [self |-> [self EXCEPT !.integral = integral, !.last_error = error],
             ret |-> limited]

HeadPitchController_update(self, new_pitch) == [self EXCEPT !.current_pitch = new_pitch]

HeadPitchController_reset(self) ==
    [self EXCEPT !.current_pitch = R(0), !.integral = R(0), !.last_error = R(0)]

-----------------------------------------------------------------------------
(* PID of the pid-only ObjectTracker *)

ObjectTracker_init(p, i, d) ==
    [pid_p |-> p, pid_i |-> i, pid_d |-> d,
     integral_x |-> R(0), integral_y |-> R(0),
     last_error_x |-> R(0), last_error_y |-> R(0),
     is_tracking |-> FALSE,
     last_detection_time |-> 0,
     detection_timeout |-> R(1),
     control_speed |-> Frac(3, 10),
     dead_zone |-> Frac(5, 100),
     cmds |-> <<>>]

pid_control(self, error_x, error_y, dt) ==
    LET p_x == RMul(self.pid_p, error_x)
        p_y == RMul(self.pid_p, error_y)
        integral_x == RMax(R(-1), RMin(R(1), RAdd(self.integral_x, RMul(error_x, dt))))
        integral_y == RMax(R(-1), RMin(R(1), RAdd(self.integral_y, RMul(error_y, dt))))
        i_x == RMul(self.pid_i, integral_x)
        i_y == RMul(self.pid_i, integral_y)
        d_x == IF RLt(R(0), dt)
               THEN RDiv(RMul(self.pid_d, RSub(error_x, self.last_error_x)), dt)
               ELSE R(0)
        d_y == IF RLt(R(0), dt)
               THEN RDiv(RMul(self.pid_d, RSub(error_y, self.last_error_y)), dt)
               ELSE R(0)
    IN  [self |-> [self EXCEPT !.integral_x = integral_x, !.integral_y = integral_y,
                               !.last_error_x = error_x, !.last_error_y = error_y],
         ret |-> <<RAdd(RAdd(p_x, i_x), d_x), RAdd(RAdd(p_y, i_y), d_y)>>]

-----------------------------------------------------------------------------
(* Position filter: moving average with jump suppression *)

PositionFilter_init(window_size, jump_threshold) ==
    [window_size |-> window_size,
     jump_threshold |-> jump_threshold,
     x_history |-> <<>>,
     y_history |-> <<>>,
     last_output_x |-> None,
     last_output_y |-> None]

\* an append that drops the newest element of a full deque
DequeAppendEvictsNewest(q, maxlen, v) ==
    IF maxlen = 0 THEN <<>>
    ELSE IF Len(q) >= maxlen THEN Append(SubSeq(q, 1, Len(q) - 1), v)
    ELSE Append(q, v)

\* deque(maxlen=...).append: the oldest element leaves a full deque
DequeAppend(q, maxlen, v) ==
    IF maxlen = 0 THEN <<>>
    ELSE IF Len(q) >= maxlen THEN Append(Tail(q), v)
    ELSE Append(q, v)

RECURSIVE RSum(_)
RSum(q) == IF q = <<>> THEN R(0) ELSE RAdd(Head(q), RSum(Tail(q)))

PositionFilter_filter(self, x, y) ==
    IF self.last_output_x = None
    THEN [self |-> [self EXCEPT
                      !.x_history = DequeAppend(@, self.window_size, x),
                      !.y_history = DequeAppend(@, self.window_size, y),
                      !.last_output_x = x,
                      !.last_output_y = y],
          ret |-> <<x, y>>]
    ELSE
    LET delta_x == RAbs(RSub(x, self.last_output_x))
        delta_y == RAbs(RSub(y, self.last_output_y))
        thr == R(self.jump_threshold)
        lo == R((-self.jump_threshold) \div 2)
        hi == R(self.jump_threshold \div 2)
        jump == RLt(thr, delta_x) \/ RLt(thr, delta_y)
        limited_x == RAdd(self.last_output_x,
                          RMax(lo, RMin(hi, RSub(x, self.last_output_x))))
        limited_y == RAdd(self.last_output_y,
                          RMax(lo, RMin(hi, RSub(y, self.last_output_y))))
        xh == DequeAppend(self.x_history, self.window_size,
                          IF jump THEN limited_x ELSE x)
        yh == DequeAppend(self.y_history, self.window_size,
                          IF jump THEN limited_y ELSE y)
        filtered_x == IF Len(xh) > 0 THEN RDiv(RSum(xh), R(Len(xh))) ELSE x
        filtered_y == IF Len(xh) > 0 THEN RDiv(RSum(yh), R(Len(yh))) ELSE y
    IN  [self |-> [self EXCEPT !.x_history = xh, !.y_history = yh,
                               !.last_output_x = filtered_x,
                               !.last_output_y = filtered_y],
         ret |-> <<filtered_x, filtered_y>>]

PositionFilter_resetKeepsLastOutput(self) ==
    [self EXCEPT !.x_history = <<>>, !.y_history = <<>>]

PositionFilter_reset(self) ==
    [self EXCEPT !.x_history = <<>>, !.y_history = <<>>,
                 !.last_output_x = None, !.last_output_y = None]

-----------------------------------------------------------------------------
(* Voice activity gate *)

VoiceActivityDetector_init(min_duration, cooldown) ==
    [min_duration |-> min_duration,
     cooldown |-> cooldown,
     speech_start_time |-> None,
     last_detection_time |-> 0,
     in_cooldown |-> FALSE]

VoiceActivityDetector_updateStrictDuration(self, speech_detected, current_time) ==
    LET cooling == self.in_cooldown
                   /\ ~(current_time - self.last_detection_time >= self.cooldown)
        s1 == IF self.in_cooldown /\ ~cooling
              THEN [self EXCEPT !.in_cooldown = FALSE]
              ELSE self
    IN  IF cooling THEN [self |-> self, ret |-> FALSE]
        ELSE IF speech_detected
        THEN IF s1.speech_start_time = None
             THEN [self |-> [s1 EXCEPT !.speech_start_time = <<current_time>>],
                   ret |-> FALSE]
             ELSE IF current_time - s1.speech_start_time[1] > s1.min_duration
             THEN [self |-> [s1 EXCEPT !.last_detection_time = current_time,
                                       !.in_cooldown = TRUE,
                                       !.speech_start_time = None],
                   ret |-> TRUE]
             ELSE [self |-> s1, ret |-> FALSE]
        ELSE [self |-> [s1 EXCEPT !.speech_start_time = None], ret |-> FALSE]

VoiceActivityDetector_updateKeepsStart(self, speech_detected, current_time) ==
    LET cooling == self.in_cooldown
                   /\ ~(current_time - self.last_detection_time >= self.cooldown)
        s1 == IF self.in_cooldown /\ ~cooling
              THEN [self EXCEPT !.in_cooldown = FALSE]
              ELSE self
    IN  IF cooling THEN [self |-> self, ret |-> FALSE]
        ELSE IF speech_detected
        THEN IF s1.speech_start_time = None
             THEN [self |-> [s1 EXCEPT !.speech_start_time = <<current_time>>],
                   ret |-> FALSE]
             ELSE IF current_time - s1.speech_start_time[1] >= s1.min_duration
             THEN [self |-> [s1 EXCEPT !.last_detection_time = current_time,
                                       !.in_cooldown = TRUE,
                                       !.speech_start_time = None],
                   ret |-> TRUE]
             ELSE [self |-> s1, ret |-> FALSE]
        ELSE [self |-> s1, ret |-> FALSE]

\* update() called when the clock reads current_time
VoiceActivityDetector_update(self, speech_detected, current_time) ==
    LET cooling == self.in_cooldown
                   /\ ~(current_time - self.last_detection_time >= self.cooldown)
        s1 == IF self.in_cooldown /\ ~cooling
              THEN [self EXCEPT !.in_cooldown = FALSE]
              ELSE self
    IN  IF cooling THEN [self |-> self, ret |-> FALSE]
        ELSE IF speech_detected
        THEN IF s1.speech_start_time = None
             THEN [self |-> [s1 EXCEPT !.speech_start_time = <<current_time>>],
                   ret |-> FALSE]
             ELSE IF current_time - s1.speech_start_time[1] >= s1.min_duration
             THEN [self |-> [s1 EXCEPT !.last_detection_time = current_time,
                                       !.in_cooldown = TRUE,
                                       !.speech_start_time = None],
                   ret |-> TRUE]
             ELSE [self |-> s1, ret |-> FALSE]
        ELSE [self |-> [s1 EXCEPT !.speech_start_time = None], ret |-> FALSE]

-----------------------------------------------------------------------------
(* Target selection *)

\* A detection is <<x1, y1, x2, y2, confidence (percent), class_id>>.
\* Squared distance of the box centre to the frame centre, times 4; the
\* source compares math.sqrt of it, which orders the same way.
DistSq4(det, frame_width, frame_height) ==
    (det[1] + det[3] - frame_width) * (det[1] + det[3] - frame_width)
    + (det[2] + det[4] - frame_height) * (det[2] + det[4] - frame_height)

RECURSIVE SelectLoopLastWins(_, _, _, _)
SelectLoopLastWins(dets, frame_width, frame_height, acc) ==
    IF dets = <<>> THEN acc
    ELSE LET det == Head(dets)
             distance == DistSq4(det, frame_width, frame_height)
             better == acc[2] = None \/ distance <= acc[2][1]
         IN  SelectLoopLastWins(Tail(dets), frame_width, frame_height,
                                IF better THEN <<det, <<distance>>>> ELSE acc)

\* The loop over detections: state is <<best_detection, min_distance>>,
\* min_distance None standing for float('inf')
RECURSIVE SelectLoop(_, _, _, _)
SelectLoop(dets, frame_width, frame_height, acc) ==
    IF dets = <<>> THEN acc
    ELSE LET det == Head(dets)
             distance == DistSq4(det, frame_width, frame_height)
             better == acc[2] = None \/ distance < acc[2][1]
         IN  SelectLoop(Tail(dets), frame_width, frame_height,
                        IF better THEN <<det, <<distance>>>> ELSE acc)

select_best_target(detections, frame_width, frame_height) ==
    IF detections = <<>> THEN None
    ELSE SelectLoop(detections, frame_width, frame_height, <<None, None>>)[1]

find_target_center(detections, frame_width, frame_height) ==
    IF detections = <<>>
    THEN [center |-> None, detection |-> None, area |-> 0]
    ELSE LET best_detection ==
                 SelectLoop(detections, frame_width, frame_height, <<None, None>>)[1]
         IN  IF best_detection # None
             THEN [center |-> <<Frac(best_detection[1] + best_detection[3], 2),
                                Frac(best_detection[2] + best_detection[4], 2)>>,
                   detection |-> best_detection,
                   area |-> (best_detection[3] - best_detection[1])
                            * (best_detection[4] - best_detection[2])]
             ELSE [center |-> None, detection |-> None, area |-> 0]

-----------------------------------------------------------------------------
(* KalmanTracker: constant-velocity Kalman filter on the target position.   *)
(* The state is <<x, y, vx, vy>>.  The two axes have the same transition,   *)
(* measurement and noise matrices and never mix, so the 4x4 error           *)
(* covariance is the same 2x2 block [pp pv; pv vv] for (x, vx) and (y, vy). *)

ZeroState == <<R(0), R(0), R(0), R(0)>>
ZeroCov == [pp |-> R(0), pv |-> R(0), vv |-> R(0)]

KalmanTracker_init(process_noise_scale, measurement_noise_scale) ==
    [processNoiseCov |-> process_noise_scale,
     measurementNoiseCov |-> measurement_noise_scale,
     statePre |-> ZeroState, statePost |-> ZeroState,
     errorCovPre |-> ZeroCov, errorCovPost |-> ZeroCov,
     initialized |-> FALSE]

\* kf.predict(): x' = A x, P' = A P A^T + Q, both copied to the posterior
kf_predict(self) ==
    LET x == self.statePost
        P == self.errorCovPost
        q == self.processNoiseCov
        pre == <<RAdd(x[1], x[3]), RAdd(x[2], x[4]), x[3], x[4]>>
        cov == [pp |-> RAdd(RAdd(RAdd(P.pp, P.pv), RAdd(P.pv, P.vv)), q),
                pv |-> RAdd(P.pv, P.vv),
                vv |-> RAdd(P.vv, q)]
    IN  [self EXCEPT !.statePre = pre, !.statePost = pre,
                     !.errorCovPre = cov, !.errorCovPost = cov]

\* kf.correct(z): K = P' H^T (H P' H^T + R)^-1, x = x' + K (z - H x'),
\* P = P' - K H P'
kf_correct(self, zx, zy) ==
    LET x == self.statePre
        P == self.errorCovPre
        S == RAdd(P.pp, self.measurementNoiseCov)
        K1 == RDiv(P.pp, S)
        K2 == RDiv(P.pv, S)
        rx == RSub(zx, x[1])
        ry == RSub(zy, x[2])
    IN  [self EXCEPT
           !.statePost = <<RAdd(x[1], RMul(K1, rx)), RAdd(x[2], RMul(K1, ry)),
                           RAdd(x[3], RMul(K2, rx)), RAdd(x[4], RMul(K2, ry))>>,
           !.errorCovPost = [pp |-> RSub(P.pp, RMul(K1, P.pp)),
                             pv |-> RSub(P.pv, RMul(K1, P.pv)),
                             vv |-> RSub(P.vv, RMul(K2, P.pv))]]

KalmanTracker_update(self, measurement_x, measurement_y) ==
    IF ~self.initialized
    THEN [self |-> [self EXCEPT
                      !.statePost = <<measurement_x, measurement_y, R(0), R(0)>>,
                      !.initialized = TRUE],
          ret |-> <<measurement_x, measurement_y>>]
    ELSE LET k == kf_correct(kf_predict(self), measurement_x, measurement_y)
         IN  [self |-> k, ret |-> <<k.statePost[1], k.statePost[2]>>]

KalmanTracker_predict(self) ==
    IF ~self.initialized
    THEN [self |-> self, ret |-> <<None, None>>]
    ELSE LET k == kf_predict(self)
         IN  [self |-> k, ret |-> <<k.statePre[1], k.statePre[2]>>]

\* reset that zeroes the state vectors but leaves the flag set
KalmanTracker_resetKeepsInitialized(self) ==
    [self EXCEPT !.statePre = ZeroState, !.statePost = ZeroState]

KalmanTracker_reset(self) ==
    [self EXCEPT !.initialized = FALSE,
                 !.statePre = ZeroState, !.statePost = ZeroState]

-----------------------------------------------------------------------------
(* Sound tracking: the PID of sound_tracking.py and the SoundTracker.       *)
(* Angles are degrees; times are clock ticks, converted to seconds where    *)
(* the code computes with them.                                             *)

TicksPerSecond == 2
Seconds(ticks) == Frac(ticks, TicksPerSecond)
\* a duration in seconds as the least whole number of ticks that reaches it
TicksFor(seconds) ==
    LET k == seconds[1] * TicksPerSecond
    IN  IF k % seconds[2] = 0 THEN k \div seconds[2] ELSE (k \div seconds[2]) + 1

RFloor(a) == a[1] \div a[2]
\* Python's float %: the result has the sign of the divisor
RMod(a, m) == RSub(a, R(m * RFloor(RDiv(a, R(m)))))
RClip(a, lo, hi) == RMax(lo, RMin(hi, a))
RSign(a) == IF a[1] > 0 THEN R(1) ELSE IF a[1] < 0 THEN R(-1) ELSE R(0)

PIDController_init(kp, ki, kd, output_limit, current_time) ==
    [kp |-> kp, ki |-> ki, kd |-> kd, output_limit |-> output_limit,
     integral |-> R(0), last_error |-> R(0), last_time |-> current_time]

PIDController_update(self, setpoint, measured_value, current_time) ==
    LET dt == Seconds(current_time - self.last_time)
        error == RSub(setpoint, measured_value)
        p_term == RMul(self.kp, error)
        integral_limit == RDiv(self.output_limit,
                               IF RLt(R(0), self.ki) THEN self.ki ELSE R(1))
        integral == RClip(RAdd(self.integral, RMul(error, dt)),
                          RNeg(integral_limit), integral_limit)
        i_term == RMul(self.ki, integral)
        d_term == RMul(self.kd, RDiv(RSub(error, self.last_error), dt))
        output == RClip(RAdd(RAdd(p_term, i_term), d_term),
                        RNeg(self.output_limit), self.output_limit)
    IN  IF RLe(dt, R(0))
        THEN [self |-> self, ret |-> R(0)]
        ELSE [self |-> [self EXCEPT !.integral = integral,
                                    !.last_error = error,
                                    !.last_time = current_time],
              ret |-> output]

PIDController_reset(self, current_time) ==
    [self EXCEPT !.integral = R(0), !.last_error = R(0),
                 !.last_time = current_time]

HeadThresholdDeg == 25
AntennaRest == <<R(0), R(0)>>
AntennaActive == <<Frac(1, 2), Frac(1, 2)>>

\* mode is "head", "body" or "hybrid"; state is "idle", "detecting",
\* "tracking" or "lost"; a command is one call made on the robot
SoundTracker_init(mode, min_duration, control_speed, enable_antenna, kp, ki, kd, current_time) ==
    [mode |-> mode,
     control_speed |-> control_speed,
     enable_antenna |-> enable_antenna,
     vad |-> VoiceActivityDetector_init(TicksFor(min_duration), TicksFor(Frac(1, 2))),
     pid |-> PIDController_init(kp, ki, kd,
                                IF mode = "body" THEN R(160) ELSE R(35),
                                current_time),
     state |-> "idle",
     current_yaw |-> R(0),
     target_yaw |-> R(0),
     last_doa_angle |-> None,
     last_detection_time |-> 0,
     detection_timeout |-> R(2),
     cmds |-> <<>>]

doa_to_robot_yaw(doa_angle_rad) ==
    LET doa_deg == Degrees(doa_angle_rad)
        robot_yaw == RSub(R(90), doa_deg)
    IN  RSub(RMod(RAdd(robot_yaw, R(180)), 360), R(180))

GotoTarget(head_yaw, body_yaw, duration, ok) ==
    [call |-> "goto_target", head_yaw |-> head_yaw, body_yaw |-> body_yaw,
     antennas |-> None, duration |-> duration, ok |-> ok]

\* _set_antenna: the exception of set_target is swallowed
set_antenna(self, angles, ok) ==
    [self EXCEPT !.cmds = Append(@,
        [call |-> "set_target", head_yaw |-> None, body_yaw |-> None,
         antennas |-> <<Radians(angles[1]), Radians(angles[2])>>,
         duration |-> None, ok |-> ok])]

\* _execute_control without the head threshold: the whole yaw goes to the head
execute_controlNoSplit(self, current_time, ok) ==
    LET u == PIDController_update(self.pid, self.target_yaw, self.current_yaw,
                                  current_time)
        lim == IF self.mode = "head" THEN R(35) ELSE R(160)
        current_yaw == RClip(RAdd(self.current_yaw, u.ret), RNeg(lim), lim)
        s1 == [self EXCEPT !.pid = u.self, !.current_yaw = current_yaw]
        cmd == IF self.mode = "body"
               THEN GotoTarget(None, <<Radians(current_yaw)>>, self.control_speed, ok)
               ELSE GotoTarget(<<current_yaw>>, None, self.control_speed, ok)
    IN  [s1 EXCEPT !.cmds = Append(@, cmd)]

execute_control(self, current_time, ok) ==
    LET u == PIDController_update(self.pid, self.target_yaw, self.current_yaw,
                                  current_time)
        lim == IF self.mode = "head" THEN R(35) ELSE R(160)
        current_yaw == RClip(RAdd(self.current_yaw, u.ret), RNeg(lim), lim)
        s1 == [self EXCEPT !.pid = u.self, !.current_yaw = current_yaw]
        head_limit == R(HeadThresholdDeg)
        body_yaw == RMul(RSign(current_yaw), RSub(RAbs(current_yaw), head_limit))
        head_yaw == RMul(RSign(current_yaw), head_limit)
        cmd == IF self.mode = "head"
               THEN GotoTarget(<<current_yaw>>, None, self.control_speed, ok)
               ELSE IF self.mode = "body"
               THEN GotoTarget(None, <<Radians(current_yaw)>>, self.control_speed, ok)
               ELSE IF RLe(RAbs(current_yaw), head_limit)
               THEN GotoTarget(<<current_yaw>>, None, self.control_speed, ok)
               ELSE GotoTarget(<<head_yaw>>, <<Radians(body_yaw)>>,
                               self.control_speed, ok)
    IN  [s1 EXCEPT !.cmds = Append(@, cmd)]

\* update() that lets the timeout take any state to "lost"
SoundTracker_updateLostFromAny(self, doa_result, current_time, ok, antenna_ok) ==
    LET v == IF doa_result # None
             THEN VoiceActivityDetector_update(self.vad, doa_result[2], current_time)
             ELSE [self |-> self.vad, ret |-> FALSE]
        s0 == [self EXCEPT !.vad = v.self]
        s1 == IF v.ret
              THEN LET a == [s0 EXCEPT !.last_detection_time = current_time,
                                       !.last_doa_angle = <<doa_result[1]>>,
                                       !.target_yaw = doa_to_robot_yaw(doa_result[1]),
                                       !.state = "tracking"]
                   IN  IF a.enable_antenna
                       THEN set_antenna(a, AntennaActive, antenna_ok) ELSE a
              ELSE s0
        s2 == IF RLt(s1.detection_timeout,
                     Seconds(current_time - s1.last_detection_time))
              THEN LET a == [s1 EXCEPT !.state = "lost"]
                       b == IF a.enable_antenna
                            THEN set_antenna(a, AntennaRest, antenna_ok) ELSE a
                   IN  [b EXCEPT !.pid = PIDController_reset(@, current_time)]
              ELSE s1
    IN  IF s2.state = "tracking" THEN execute_control(s2, current_time, ok) ELSE s2

SoundTracker_update(self, doa_result, current_time, ok, antenna_ok) ==
    LET v == IF doa_result # None
             THEN VoiceActivityDetector_update(self.vad, doa_result[2], current_time)
             ELSE [self |-> self.vad, ret |-> FALSE]
        s0 == [self EXCEPT !.vad = v.self]
        s1 == IF v.ret
              THEN LET a == [s0 EXCEPT !.last_detection_time = current_time,
                                       !.last_doa_angle = <<doa_result[1]>>,
                                       !.target_yaw = doa_to_robot_yaw(doa_result[1]),
                                       !.state = "tracking"]
                   IN  IF a.enable_antenna
                       THEN set_antenna(a, AntennaActive, antenna_ok) ELSE a
              ELSE s0
        s2 == IF /\ RLt(s1.detection_timeout,
                        Seconds(current_time - s1.last_detection_time))
                 /\ s1.state = "tracking"
              THEN LET a == [s1 EXCEPT !.state = "lost"]
                       b == IF a.enable_antenna
                            THEN set_antenna(a, AntennaRest, antenna_ok) ELSE a
                   IN  [b EXCEPT !.pid = PIDController_reset(@, current_time)]
              ELSE s1
    IN  IF s2.state = "tracking" THEN execute_control(s2, current_time, ok) ELSE s2

\* reset() that leaves the antennas where they are
SoundTracker_resetKeepsAntenna(self, current_time, ok, antenna_ok) ==
    LET s1 == [self EXCEPT !.state = "idle",
                           !.current_yaw = R(0),
                           !.target_yaw = R(0),
                           !.pid = PIDController_reset(@, current_time),
                           !.vad.speech_start_time = None]
        cmd == IF self.mode = "head"
               THEN GotoTarget(<<R(0)>>, None, R(1), ok)
               ELSE GotoTarget(None, <<R(0)>>, R(1), ok)
    IN  [s1 EXCEPT !.cmds = Append(@, cmd)]

SoundTracker_reset(self, current_time, ok, antenna_ok) ==
    LET s1 == [self EXCEPT !.state = "idle",
                           !.current_yaw = R(0),
                           !.target_yaw = R(0),
                           !.pid = PIDController_reset(@, current_time),
                           !.vad.speech_start_time = None]
        s2 == IF s1.enable_antenna THEN set_antenna(s1, AntennaRest, antenna_ok) ELSE s1
        cmd == IF self.mode = "head"
               THEN GotoTarget(<<R(0)>>, None, R(1), ok)
               ELSE GotoTarget(None, <<R(0)>>, R(1), ok)
    IN  [s2 EXCEPT !.cmds = Append(@, cmd)]

-----------------------------------------------------------------------------
(* State after construction of every object *)

StartTime == 10

PidChoices ==
    { <<Frac(1, 2), R(0), R(0)>>,
      <<R(2), R(1), Frac(1, 10)>> }

GainChoices == { DefaultGain, R(4) }

IdleYaw == HeadYawController_init(Frac(1, 2), R(0), R(0))
IdlePitch == HeadPitchController_init(Frac(1, 2), R(0), R(0))
IdleOt == ObjectTracker_init(R(1), R(0), R(0))
IdleFilt == PositionFilter_init(5, 30)
IdleVad == VoiceActivityDetector_init(3, 5)
IdleKal == KalmanTracker_init(R(1), R(1))
IdleSnd == SoundTracker_init("head", Frac(3, 10), Frac(1, 2), TRUE,
                             Frac(6, 10), Frac(1, 100), Frac(3, 10), StartTime)
IdleTh == [pc |-> "idle"]

\* tracking fields of YoloObjectTracker / TrackingManager after construction
Tracker_init(start_time) ==
    [is_tracking |-> FALSE,
     last_detection_time |-> 0,
     detection_timeout |-> R(1),
     manual_mode |-> FALSE,
     is_running |-> FALSE,
     last_time |-> start_time,
     latest_info |-> [is_tracking |-> FALSE]]

IdleTrk == Tracker_init(StartTime)

-----------------------------------------------------------------------------
(* SpecCtl: one of the axis controllers, or the PID of the pid-only        *)
(* tracker, driven through its methods in any order                        *)

YawTargets == { 0, 330, 400 }
PitchTargets == { 0, 250, 300 }
Dts == { R(-1), R(0), R(2) }
UpdateAngles == { Frac(-1, 2), R(3) }
ErrorPairs == { <<R(-1), Frac(1, 4)>>, <<R(1), R(1)>>, <<R(0), R(-1)>> }

InitCtl ==
    /\ prog \in {"yaw", "pitch", "pid"}
    /\ \E pid \in PidChoices, g \in GainChoices :
          /\ yaw = [HeadYawController_init(pid[1], pid[2], pid[3]) EXCEPT !.gain = g]
          /\ pitch = [HeadPitchController_init(pid[1], pid[2], pid[3]) EXCEPT !.gain = g]
          /\ ot = ObjectTracker_init(pid[1], pid[2], pid[3])
    /\ filt = IdleFilt
    /\ vad = IdleVad
    /\ trk = IdleTrk
    /\ now = StartTime
    /\ cmds = <<>>
    /\ op = [name |-> "init"]
    /\ ret = None
    /\ hist = <<>>
    /\ n = 0
    /\ kal = IdleKal /\ snd = IdleSnd /\ th = IdleTh /\ exc = FALSE

CtlYawCompute ==
    /\ prog = "yaw" /\ n < MaxOps
    /\ \E target_x \in YawTargets, dt \in Dts :
          \E r \in {HeadYawController_compute(yaw, R(target_x), FrameWidth, dt)} :
              /\ yaw' = r.self
              /\ ret' = r.ret
              /\ op' = [name |-> "yaw.compute", target |-> R(target_x),
                        frame |-> FrameWidth, dt |-> dt, before |-> yaw]
    /\ n' = n + 1
    /\ UNCHANGED <<prog, kal, snd, th, exc, pitch, ot, filt, vad, trk, now, cmds, hist>>

CtlYawUpdate ==
    /\ prog = "yaw" /\ n < MaxOps
    /\ \E a \in UpdateAngles \cup (IF op.name = "yaw.compute" THEN {ret} ELSE {}) :
          /\ yaw' = HeadYawController_update(yaw, a)
          /\ op' = [name |-> "yaw.update", angle |-> a, before |-> yaw]
    /\ ret' = None
    /\ n' = n + 1
    /\ UNCHANGED <<prog, kal, snd, th, exc, pitch, ot, filt, vad, trk, now, cmds, hist>>

CtlYawReset ==
    /\ prog = "yaw" /\ n < MaxOps
    /\ yaw' = HeadYawController_reset(yaw)
    /\ op' = [name |-> "yaw.reset", before |-> yaw]
    /\ ret' = None
    /\ n' = n + 1
    /\ UNCHANGED <<prog, kal, snd, th, exc, pitch, ot, filt, vad, trk, now, cmds, hist>>

CtlPitchCompute ==
    /\ prog = "pitch" /\ n < MaxOps
    /\ \E target_y \in PitchTargets, dt \in Dts :
          \E r \in {HeadPitchController_compute(pitch, R(target_y), FrameHeight, dt)} :
              /\ pitch' = r.self
              /\ ret' = r.ret
              /\ op' = [name |-> "pitch.compute", target |-> R(target_y),
                        frame |-> FrameHeight, dt |-> dt, before |-> pitch]
    /\ n' = n + 1
    /\ UNCHANGED <<prog, kal, snd, th, exc, yaw, ot, filt, vad, trk, now, cmds, hist>>

CtlPitchUpdate ==
    /\ prog = "pitch" /\ n < MaxOps
    /\ \E a \in UpdateAngles \cup (IF op.name = "pitch.compute" THEN {ret} ELSE {}) :
          /\ pitch' = HeadPitchController_update(pitch, a)
          /\ op' = [name |-> "pitch.update", angle |-> a, before |-> pitch]
    /\ ret' = None
    /\ n' = n + 1
    /\ UNCHANGED <<prog, kal, snd, th, exc, yaw, ot, filt, vad, trk, now, cmds, hist>>

CtlPitchReset ==
    /\ prog = "pitch" /\ n < MaxOps
    /\ pitch' = HeadPitchController_reset(pitch)
    /\ op' = [name |-> "pitch.reset", before |-> pitch]
    /\ ret' = None
    /\ n' = n + 1
    /\ UNCHANGED <<prog, kal, snd, th, exc, yaw, ot, filt, vad, trk, now, cmds, hist>>

CtlPidControl ==
    /\ prog = "pid" /\ n < MaxOps
    /\ \E e \in ErrorPairs, dt \in Dts :
          LET error_x == e[1]
              error_y == e[2]
              r == pid_control(ot, error_x, error_y, dt)
          IN  /\ ot' = r.self
              /\ ret' = r.ret
              /\ op' = [name |-> "pid_control", error_x |-> error_x,
                        error_y |-> error_y, dt |-> dt, before |-> ot]
    /\ n' = n + 1
    /\ UNCHANGED <<prog, kal, snd, th, exc, yaw, pitch, filt, vad, trk, now, cmds, hist>>

NextCtl ==
    \/ CtlYawCompute \/ CtlYawUpdate \/ CtlYawReset
    \/ CtlPitchCompute \/ CtlPitchUpdate \/ CtlPitchReset
    \/ CtlPidControl

SpecCtl == InitCtl /\ [][NextCtl]_vars

-----------------------------------------------------------------------------
(* Properties of the axis controllers (SpecCtl) *)

\* |target - frame/2| / (frame/2) < dead_zone, stated without the division
InsideDeadZone(target, frame, dead_zone) ==
    RLt(RAbs(RSub(target, Frac(frame, 2))), RMul(dead_zone, Frac(frame, 2)))

WithinLimit(angle, limit) == RLe(RNeg(limit), angle) /\ RLe(angle, limit)

\* C1: whatever the controller went through (compute, update with any angle,
\* reset), the angle returned by compute() lies within [-limit, +limit] of its
\* axis.
C1_ComputeWithinLimit ==
    /\ op.name = "yaw.compute" => WithinLimit(ret, yaw.yaw_limit)
    /\ op.name = "pitch.compute" => WithinLimit(ret, pitch.pitch_limit)

\* C2: a compute() whose normalized error is inside the dead zone returns the
\* current angle and leaves current angle, integral and last_error as they
\* were.
C2_DeadZoneNoEffect ==
    /\ (op.name = "yaw.compute"
        /\ InsideDeadZone(op.target, op.frame, op.before.dead_zone))
       => (ret = op.before.current_yaw /\ yaw = op.before)
    /\ (op.name = "pitch.compute"
        /\ InsideDeadZone(op.target, op.frame, op.before.dead_zone))
       => (ret = op.before.current_pitch /\ pitch = op.before)

C2_Witness ==
    /\ op.name = "yaw.compute"
    /\ InsideDeadZone(op.target, op.frame, op.before.dead_zone)
    /\ op.target # Frac(op.frame, 2)
    /\ op.before.current_yaw # R(0)
    /\ op.before.integral # R(0)
    /\ op.before.last_error # R(0)

\* C3: after any sequence of compute() / pid_control() calls with any error
\* and any dt, every integral accumulator is within [-1, 1].
C3_IntegralBounded ==
    /\ WithinLimit(yaw.integral, R(1))
    /\ WithinLimit(pitch.integral, R(1))
    /\ WithinLimit(ot.integral_x, R(1))
    /\ WithinLimit(ot.integral_y, R(1))

\* a compute() whose raw accumulation error * dt leaves [-1, 1]
C3_Witness ==
    /\ op.name = "yaw.compute"
    /\ ~InsideDeadZone(op.target, op.frame, op.before.dead_zone)
    /\ op.before.integral = R(-1)
    /\ RLt(RAdd(op.before.integral,
                RMul(normalize_to_center(op.target, op.frame), op.dt)), R(-1))
    /\ yaw.integral = R(-1)

-----------------------------------------------------------------------------
(* SpecFilter: one PositionFilter driven through filter() and reset()       *)

WindowSizes == { 1, 2, 3 }
JumpThresholds == { 30, 31 }
FilterXs == { -1000, -15, 0, 30 }
FilterYs == { 0, 100 }

InitFilter ==
    /\ prog = "filter"
    /\ \E w \in WindowSizes, t \in JumpThresholds : filt = PositionFilter_init(w, t)
    /\ yaw = IdleYaw
    /\ pitch = IdlePitch
    /\ ot = IdleOt
    /\ vad = IdleVad
    /\ trk = IdleTrk
    /\ now = StartTime
    /\ cmds = <<>>
    /\ op = [name |-> "init"]
    /\ ret = None
    /\ hist = <<>>
    /\ n = 0
    /\ kal = IdleKal /\ snd = IdleSnd /\ th = IdleTh /\ exc = FALSE

FilterFilter ==
    /\ prog = "filter" /\ n < MaxFilterCalls
    /\ \E x \in FilterXs, y \in FilterYs :
          \E r \in {PositionFilter_filter(filt, R(x), R(y))} :
              /\ filt' = r.self
              /\ ret' = r.ret
              /\ op' = [name |-> "filter", x |-> R(x), y |-> R(y), before |-> filt]
    /\ hist' = Append(hist, "filter")
    /\ n' = n + 1
    /\ UNCHANGED <<prog, kal, snd, th, exc, yaw, pitch, ot, vad, trk, now, cmds>>

FilterReset ==
    /\ prog = "filter" /\ n < MaxFilterCalls
    /\ filt' = PositionFilter_reset(filt)
    /\ ret' = None
    /\ op' = [name |-> "reset", before |-> filt]
    /\ hist' = Append(hist, "reset")
    /\ n' = n + 1
    /\ UNCHANGED <<prog, kal, snd, th, exc, yaw, pitch, ot, vad, trk, now, cmds>>

NextFilter == FilterFilter \/ FilterReset

SpecFilter == InitFilter /\ [][NextFilter]_vars

-----------------------------------------------------------------------------
(* Properties of the position filter (SpecFilter) *)

\* |a - b| <= bound
Within(a, b, bound) == RLe(RAbs(RSub(a, b)), bound)

\* C7: when the input of a filter() call differs from last_output by more
\* than jump_threshold (on either axis), the value returned differs from the
\* previous output by at most jump_threshold / 2 on each axis.
C7_JumpSuppressed ==
    (/\ op.name = "filter"
     /\ op.before.last_output_x # None
     /\ \/ RLt(R(op.before.jump_threshold),
               RAbs(RSub(op.x, op.before.last_output_x)))
        \/ RLt(R(op.before.jump_threshold),
               RAbs(RSub(op.y, op.before.last_output_y))))
    => /\ Within(ret[1], op.before.last_output_x, Frac(op.before.jump_threshold, 2))
       /\ Within(ret[2], op.before.last_output_y, Frac(op.before.jump_threshold, 2))

\* C8: the first filter(x, y) of a new filter, and the first filter(x, y)
\* after a reset(), returns exactly (x, y).
C8_ColdStart ==
    (/\ Len(hist) >= 1
     /\ hist[Len(hist)] = "filter"
     /\ (Len(hist) = 1 \/ hist[Len(hist) - 1] = "reset"))
    => ret = <<op.x, op.y>>

\* a far-away input right after a reset that followed earlier filtering
C8_Witness ==
    /\ Len(hist) >= 3
    /\ hist[Len(hist)] = "filter"
    /\ hist[Len(hist) - 1] = "reset"
    /\ hist[Len(hist) - 2] = "filter"
    /\ op.x = R(-1000)
    /\ ret = <<R(-1000), op.y>>
    /\ filt.x_history = <<R(-1000)>>

-----------------------------------------------------------------------------
(* SpecVad: one VoiceActivityDetector; each update() reads the clock, which *)
(* has advanced by some amount since the previous call                     *)

VadMinDurations == { 2, 3 }
VadCooldowns == { 2, 4 }
ClockSteps == { 0, 1, 2 }

InitVad ==
    /\ prog = "vad"
    /\ \E md \in VadMinDurations, cd \in VadCooldowns :
          vad = VoiceActivityDetector_init(md, cd)
    /\ yaw = IdleYaw
    /\ pitch = IdlePitch
    /\ ot = IdleOt
    /\ filt = IdleFilt
    /\ trk = IdleTrk
    /\ now = StartTime
    /\ cmds = <<>>
    /\ op = [name |-> "init"]
    /\ ret = None
    /\ hist = <<>>
    /\ n = 0
    /\ kal = IdleKal /\ snd = IdleSnd /\ th = IdleTh /\ exc = FALSE

VadUpdate ==
    /\ prog = "vad" /\ n < MaxVadCalls
    /\ \E speech_detected \in BOOLEAN, step \in ClockSteps :
          LET r == VoiceActivityDetector_update(vad, speech_detected, now + step)
          IN  /\ now' = now + step
              /\ vad' = r.self
              /\ ret' = <<r.ret>>
              /\ op' = [name |-> "vad.update", speech |-> speech_detected]
              /\ hist' = Append(hist, [t |-> now + step,
                                       speech |-> speech_detected,
                                       fired |-> r.ret])
    /\ n' = n + 1
    /\ UNCHANGED <<prog, kal, snd, th, exc, yaw, pitch, ot, filt, trk, cmds>>

NextVad == VadUpdate

SpecVad == InitVad /\ [][NextVad]_vars

-----------------------------------------------------------------------------
(* Properties of the activity gate (SpecVad), stated on the log of calls *)

\* call i falls into the cooldown of an earlier firing
Cooling(i) ==
    \E k \in 1..(i - 1) : hist[k].fired /\ hist[i].t - hist[k].t < vad.cooldown

\* call i is the first True of a run: the gate is not cooling down and the
\* previous call was no True that the gate was accumulating
RunStart(i) ==
    /\ hist[i].speech
    /\ ~Cooling(i)
    /\ (i = 1 \/ ~hist[i - 1].speech \/ Cooling(i - 1) \/ hist[i - 1].fired)

AllTrue(i, j) == \A k \in i..j : hist[k].speech

\* C5: with True fed continuously from the first True on, the call that fires
\* is the first one at which the time since the first True is >= min_duration
\* (no earlier one fires), and every call made less than cooldown after the
\* firing returns false whatever its input.
C5_FiresOnceThenCooldown ==
    /\ \A i \in 1..Len(hist) : \A j \in i..Len(hist) :
          (RunStart(i) /\ AllTrue(i, j) /\ (\A k \in i..(j - 1) : ~hist[k].fired))
          => (hist[j].fired <=> hist[j].t - hist[i].t >= vad.min_duration)
    /\ \A j \in 1..Len(hist) : \A k \in (j + 1)..Len(hist) :
          (hist[j].fired /\ hist[k].t - hist[j].t < vad.cooldown)
          => ~hist[k].fired

\* a run that fired at the call reaching min_duration after at least one
\* earlier non-firing True, followed by a True inside the cooldown
C5_Witness ==
    \E i \in 1..Len(hist) : \E j \in (i + 2)..Len(hist) : \E k \in (j + 1)..Len(hist) :
        /\ RunStart(i) /\ AllTrue(i, k)
        /\ hist[j].fired
        /\ hist[j].t - hist[i].t >= vad.min_duration
        /\ hist[j - 1].t - hist[i].t < vad.min_duration
        /\ hist[k].t - hist[j].t < vad.cooldown
        /\ ~hist[k].fired

\* C6: a firing call ends an uninterrupted run of True inputs that has lasted
\* at least min_duration; True inputs before a False earn nothing.
C6_NoPartialCredit ==
    \A j \in 1..Len(hist) :
        hist[j].fired =>
            \E i \in 1..(j - 1) :
                AllTrue(i, j) /\ hist[j].t - hist[i].t >= vad.min_duration

\* True for less than min_duration, a False, then a fresh run that fires,
\* although min_duration had passed since the very first True well before
C6_Witness ==
    \E a \in 1..Len(hist) : \E b \in (a + 1)..Len(hist) : \E j \in (b + 2)..Len(hist) :
        /\ RunStart(a) /\ AllTrue(a, b - 1) /\ ~hist[b].speech
        /\ hist[b].t - hist[a].t < vad.min_duration
        /\ \A k \in 1..(j - 1) : ~hist[k].fired
        /\ AllTrue(b + 1, j)
        /\ hist[j - 1].t - hist[a].t >= vad.min_duration
        /\ hist[j].fired

-----------------------------------------------------------------------------
(* SpecSel: the target selectors applied to lists of detections *)

BoxA == <<350, 220, 390, 260, 90, 39>>   \* centre (370, 240), 50 from the centre
BoxB == <<320, 230, 340, 250, 80, 39>>   \* centre (330, 240), 10 from the centre
BoxC == <<300, 250, 340, 290, 70, 39>>   \* centre (320, 270), 30 from the centre
BoxD == <<300, 230, 320, 250, 60, 39>>   \* centre (310, 240), 10 from the centre
BoxE == <<380, 220, 420, 260, 95, 39>>   \* centre (400, 240)

SelBoxes == { BoxA, BoxB, BoxC, BoxD }

DetLists == UNION { [1..len -> SelBoxes] : len \in 0..MaxDets }

InitSel ==
    /\ prog = "select"
    /\ yaw = IdleYaw
    /\ pitch = IdlePitch
    /\ ot = IdleOt
    /\ filt = IdleFilt
    /\ vad = IdleVad
    /\ trk = IdleTrk
    /\ now = StartTime
    /\ cmds = <<>>
    /\ op = [name |-> "init"]
    /\ ret = None
    /\ hist = <<>>
    /\ n = 0
    /\ kal = IdleKal /\ snd = IdleSnd /\ th = IdleTh /\ exc = FALSE

SelSelectBestTarget ==
    /\ prog = "select"
    /\ \E detections \in DetLists :
          /\ ret' = select_best_target(detections, FrameWidth, FrameHeight)
          /\ op' = [name |-> "select_best_target", detections |-> detections,
                    frame_width |-> FrameWidth, frame_height |-> FrameHeight]
    /\ UNCHANGED <<prog, kal, snd, th, exc, yaw, pitch, ot, filt, vad, trk, now, cmds, hist, n>>

SelFindTargetCenter ==
    /\ prog = "select"
    /\ \E detections \in DetLists :
          /\ ret' = find_target_center(detections, FrameWidth, FrameHeight)
          /\ op' = [name |-> "find_target_center", detections |-> detections,
                    frame_width |-> FrameWidth, frame_height |-> FrameHeight]
    /\ UNCHANGED <<prog, kal, snd, th, exc, yaw, pitch, ot, filt, vad, trk, now, cmds, hist, n>>

NextSel == SelSelectBestTarget \/ SelFindTargetCenter

SpecSel == InitSel /\ [][NextSel]_vars

-----------------------------------------------------------------------------
(* Properties of target selection (SpecSel) *)

BoxCenter(det) == <<Frac(det[1] + det[3], 2), Frac(det[2] + det[4], 2)>>

\* squared Euclidean distance of the box centre to the frame centre
CenterDist2(det, frame_width, frame_height) ==
    LET c == BoxCenter(det)
        dx == RSub(c[1], Frac(frame_width, 2))
        dy == RSub(c[2], Frac(frame_height, 2))
    IN  RAdd(RMul(dx, dx), RMul(dy, dy))

\* sel is the earliest detection of the list at minimum distance
EarliestNearest(sel, detections, frame_width, frame_height) ==
    \E k \in 1..Len(detections) :
        /\ sel = detections[k]
        /\ \A j \in 1..Len(detections) :
              RLe(CenterDist2(detections[k], frame_width, frame_height),
                  CenterDist2(detections[j], frame_width, frame_height))
        /\ \A j \in 1..(k - 1) :
              RLt(CenterDist2(detections[k], frame_width, frame_height),
                  CenterDist2(detections[j], frame_width, frame_height))

\* C9: for a non-empty list the selector returns the detection whose centre is
\* nearest to the frame centre, the earliest one among equals; for an empty
\* list it returns None; no controller, filter or tracker field changes.
C9_SelectsNearest ==
    /\ op.name = "select_best_target" =>
          IF op.detections = <<>> THEN ret = None
          ELSE EarliestNearest(ret, op.detections, op.frame_width, op.frame_height)
    /\ op.name = "find_target_center" =>
          IF op.detections = <<>>
          THEN ret.center = None /\ ret.detection = None
          ELSE /\ EarliestNearest(ret.detection, op.detections,
                                  op.frame_width, op.frame_height)
               /\ ret.center = BoxCenter(ret.detection)
    /\ prog = "select" =>
          (yaw = IdleYaw /\ pitch = IdlePitch /\ ot = IdleOt
           /\ filt = IdleFilt /\ trk = IdleTrk /\ cmds = <<>>)

\* detections at distances 50, 10, 30: the one at distance 10 is selected
C9_Witness ==
    /\ op.name = "select_best_target"
    /\ op.detections = <<BoxA, BoxB, BoxC>>
    /\ CenterDist2(BoxA, FrameWidth, FrameHeight) = R(50 * 50)
    /\ CenterDist2(BoxB, FrameWidth, FrameHeight) = R(10 * 10)
    /\ CenterDist2(BoxC, FrameWidth, FrameHeight) = R(30 * 30)
    /\ ret = BoxB

-----------------------------------------------------------------------------
(* The trackers: YoloObjectTracker.process_frame and the loop body of       *)
(* TrackingManager._tracking_loop.  A tracker is the record of its          *)
(* controllers, filter, tracking fields and the commands it has issued.     *)

\* send_control / _send_control: the pose in degrees handed to set_target;
\* ok is FALSE when the call raised (caught and printed)
send_control(issued, head_pitch, head_yaw, ok) ==
    Append(issued, [pitch |-> Degrees(head_pitch),
                    yaw |-> Degrees(head_yaw),
                    ok |-> ok])

\* whether an exception of the actuator call leaves send_control without the
\* handler around the call
send_control_raisesUncaught(ok) == ~ok

\* whether an exception of the actuator call leaves send_control /
\* _send_control: "except Exception" catches it
send_control_raises(ok) == FALSE

\* lines 239-261: a target was found this frame
YoloDetected(self, center, height, width, dt, current_time, ok) ==
    LET f == PositionFilter_filter(self.filter, center[1], center[2])
        filtered_x == f.ret[1]
        filtered_y == f.ret[2]
        s1 == [self EXCEPT !.trk.is_tracking = TRUE,
                           !.trk.last_detection_time = current_time,
                           !.filter = f.self]
    IN  IF self.trk.manual_mode
        THEN [self |-> s1, target_x |-> filtered_x]
        ELSE
        LET cp == HeadPitchController_compute(s1.pitch_controller, filtered_y, height, dt)
            cy == HeadYawController_compute(s1.yaw_controller, filtered_x, width, dt)
        IN  [self |-> [s1 EXCEPT
                         !.pitch_controller = HeadPitchController_update(cp.self, cp.ret),
                         !.yaw_controller = HeadYawController_update(cy.self, cy.ret),
                         !.cmds = send_control(@, cp.ret, cy.ret, ok)],
             target_x |-> filtered_x]

\* lines 263-269: no target this frame
YoloNotDetectedKeepsFilter(self, current_time) ==
    IF RLt(self.trk.detection_timeout,
           Seconds(current_time - self.trk.last_detection_time))
    THEN [self EXCEPT !.trk.is_tracking = FALSE,
                      !.pitch_controller = HeadPitchController_reset(@),
                      !.yaw_controller = HeadYawController_reset(@)]
    ELSE self

\* the no-target branch without the timeout test: every gap resets
YoloNotDetectedResetsAtOnce(self, current_time) ==
    [self EXCEPT !.trk.is_tracking = FALSE,
                 !.pitch_controller = HeadPitchController_reset(@),
                 !.yaw_controller = HeadYawController_reset(@),
                 !.filter = PositionFilter_reset(@)]

YoloNotDetected(self, current_time) ==
    IF RLt(self.trk.detection_timeout,
           Seconds(current_time - self.trk.last_detection_time))
    THEN [self EXCEPT !.trk.is_tracking = FALSE,
                      !.pitch_controller = HeadPitchController_reset(@),
                      !.yaw_controller = HeadYawController_reset(@),
                      !.filter = PositionFilter_reset(@)]
    ELSE self

\* draw_results: of its effects only the filter() call of line 394 touches
\* the tracker
draw_results(self, detection, center) ==
    IF detection # None /\ center # None
    THEN [self EXCEPT !.filter = PositionFilter_filter(@, center[1], center[2]).self]
    ELSE self

process_frame(self, detections, height, width, current_time, ok) ==
    LET dt == IF self.trk.last_detection_time > 0
              THEN Seconds(current_time - self.trk.last_detection_time)
              ELSE Frac(3, 100)
        found == find_target_center(detections, width, height)
        r == IF found.center # None
             THEN YoloDetected(self, found.center, height, width, dt, current_time, ok)
             ELSE [self |-> YoloNotDetected(self, current_time), target_x |-> None]
    IN  [self |-> draw_results(r.self, found.detection, found.center),
         ret |-> [target_x |-> r.target_x, detection |-> found.detection,
                  area |-> found.area, center |-> found.center]]

\* one iteration of the loop of _tracking_loop that got a frame (lines 123-186)
tracking_loop_body(self, detections, height, width, current_time, ok) ==
    LET dt == Seconds(current_time - self.trk.last_time)
        s0 == [self EXCEPT !.trk.last_time = current_time]
    IN  IF detections # <<>>
        THEN
        LET s1 == [s0 EXCEPT !.trk.last_detection_time = current_time,
                             !.trk.is_tracking = TRUE]
            found == find_target_center(detections, width, height)
        IN  IF found.center # None
            THEN
            LET f == PositionFilter_filter(s1.filter, found.center[1], found.center[2])
                filtered_x == f.ret[1]
                filtered_y == f.ret[2]
                cp == HeadPitchController_compute(s1.pitch_controller, filtered_y, height, dt)
                cy == HeadYawController_compute(s1.yaw_controller, filtered_x, width, dt)
            IN  [s1 EXCEPT
                   !.filter = f.self,
                   !.pitch_controller = HeadPitchController_update(cp.self, cp.ret),
                   !.yaw_controller = HeadYawController_update(cy.self, cy.ret),
                   !.cmds = send_control(@, cp.ret, cy.ret, ok),
                   !.trk.latest_info =
                       [is_tracking |-> TRUE,
                        target_center |-> found.center,
                        filtered_center |-> <<filtered_x, filtered_y>>,
                        pitch |-> cp.ret,
                        yaw |-> cy.ret,
                        detection_count |-> Len(detections),
                        detection_box |-> SubSeq(found.detection, 1, 4),
                        confidence |-> found.detection[5]]]
            ELSE [s1 EXCEPT !.trk.latest_info = [is_tracking |-> FALSE]]
        ELSE
        LET s1 == IF RLt(s0.trk.detection_timeout,
                         Seconds(current_time - s0.trk.last_detection_time))
                  THEN [s0 EXCEPT !.trk.is_tracking = FALSE,
                                  !.pitch_controller = HeadPitchController_reset(@),
                                  !.yaw_controller = HeadYawController_reset(@),
                                  !.filter = PositionFilter_reset(@)]
                  ELSE s0
        IN  [s1 EXCEPT !.trk.latest_info = [is_tracking |-> FALSE]]

-----------------------------------------------------------------------------
(* SpecTrack: one tracker program, frame after frame.  prog says which:     *)
(* "yolo" is track_object.py, "web" is the TrackingManager of the web       *)
(* variant.  The clock advances between frames.                             *)

BoxG == <<300, 260, 340, 300, 85, 39>>   \* centre (320, 280)

TrackDetLists == { <<>>, <<BoxE>>, <<BoxA, BoxG>> }
TrackClockSteps == { 1, 3 }
TrackPidChoices ==
    { <<Frac(4, 5), R(0), R(0)>>,
      <<R(1), R(0), Frac(1, 10)>> }

Tracker == [yaw_controller |-> yaw, pitch_controller |-> pitch,
            filter |-> filt, trk |-> trk, cmds |-> cmds]

InitTrack ==
    /\ prog \in {"yolo", "web"}
    /\ \E pid \in IF prog = "yolo" THEN TrackPidChoices
                  ELSE { <<Frac(1, 2), R(0), R(0)>> } :
          /\ yaw = HeadYawController_init(pid[1], pid[2], pid[3])
          /\ pitch = HeadPitchController_init(pid[1], pid[2], pid[3])
    /\ ot = IdleOt
    /\ filt = PositionFilter_init(5, 30)
    /\ vad = IdleVad
    /\ trk = Tracker_init(StartTime)
    /\ now = StartTime
    /\ cmds = <<>>
    /\ op = [name |-> "init"]
    /\ ret = None
    /\ hist = <<>>
    /\ n = 0
    /\ kal = IdleKal /\ snd = IdleSnd /\ exc = FALSE
    /\ th = IF prog = "yolo" THEN [pc |-> "main_loop"] ELSE IdleTh

\* one iteration of the loop of main that got a frame
YoloProcessFrame ==
    /\ prog = "yolo" /\ n < MaxTicks
    /\ th.pc = "main_loop" /\ ~exc
    /\ \E detections \in TrackDetLists, step \in TrackClockSteps :
       \E ok \in IF detections = <<>> THEN {TRUE} ELSE BOOLEAN :
          LET current_time == now + step IN
          \E r \in {process_frame(Tracker, detections, FrameHeight, FrameWidth,
                                 current_time, ok)} :
              /\ now' = current_time
              /\ yaw' = r.self.yaw_controller
              /\ pitch' = r.self.pitch_controller
              /\ filt' = r.self.filter
              /\ trk' = r.self.trk
              /\ cmds' = r.self.cmds
              /\ ret' = r.ret
              /\ op' = [name |-> "process_frame", detections |-> detections,
                        before |-> Tracker]
              /\ hist' = Append(hist, [t |-> current_time, det |-> detections # <<>>])
              /\ exc' = (Len(r.self.cmds) > Len(cmds) /\ send_control_raises(ok))
    /\ n' = n + 1
    /\ UNCHANGED <<prog, kal, snd, th, ot, vad>>

\* main leaves its loop ('q' or KeyboardInterrupt): the windows are destroyed
\* and the robot connection is closed
YoloMainExit ==
    /\ prog = "yolo"
    /\ th.pc = "main_loop"
    /\ th' = [pc |-> "exited"]
    /\ ret' = None
    /\ op' = [name |-> "main_exit", before |-> Tracker]
    /\ UNCHANGED <<prog, kal, snd, exc, yaw, pitch, ot, filt, vad, trk, now, cmds,
                   hist, n>>

\* start(): the loop thread is launched unless one is running
WebStart ==
    /\ prog = "web"
    /\ ~trk.is_running
    /\ trk' = [trk EXCEPT !.is_running = TRUE]
    /\ ret' = <<TRUE>>
    /\ op' = [name |-> "start"]
    /\ UNCHANGED <<prog, kal, snd, th, exc, yaw, pitch, ot, filt, vad, now, cmds, hist, n>>

\* stop(): is_running is cleared under the lock and the loop thread joined
WebStop ==
    /\ prog = "web"
    /\ trk' = [trk EXCEPT !.is_running = FALSE]
    /\ ret' = None
    /\ op' = [name |-> "stop", before |-> Tracker]
    /\ UNCHANGED <<prog, kal, snd, th, exc, yaw, pitch, ot, filt, vad, now, cmds,
                   hist, n>>

\* an iteration of the loop for which get_frame() returned None
WebNoFrame ==
    /\ prog = "web" /\ n < MaxTicks
    /\ trk.is_running /\ ~exc
    /\ \E step \in TrackClockSteps : now' = now + step
    /\ op' = [name |-> "no_frame"]
    /\ ret' = None
    /\ n' = n + 1
    /\ UNCHANGED <<prog, kal, snd, th, exc, yaw, pitch, ot, filt, vad, trk, cmds, hist>>

\* an iteration of the loop that got a frame
WebTick ==
    /\ prog = "web" /\ n < MaxTicks
    /\ trk.is_running /\ ~exc
    /\ \E detections \in TrackDetLists, step \in TrackClockSteps :
       \E ok \in IF detections = <<>> THEN {TRUE} ELSE BOOLEAN :
          LET current_time == now + step IN
          \E r \in {tracking_loop_body(Tracker, detections, FrameHeight, FrameWidth,
                                      current_time, ok)} :
              /\ now' = current_time
              /\ yaw' = r.yaw_controller
              /\ pitch' = r.pitch_controller
              /\ filt' = r.filter
              /\ trk' = r.trk
              /\ cmds' = r.cmds
              /\ ret' = None
              /\ op' = [name |-> "tracking_loop", detections |-> detections,
                        before |-> Tracker]
              /\ hist' = Append(hist, [t |-> current_time, det |-> detections # <<>>])
              /\ exc' = (Len(r.cmds) > Len(cmds) /\ send_control_raises(ok))
    /\ n' = n + 1
    /\ UNCHANGED <<prog, kal, snd, th, ot, vad>>

NextTrack ==
    \/ YoloProcessFrame \/ YoloMainExit
    \/ WebStart \/ WebStop \/ WebNoFrame \/ WebTick

SpecTrack == InitTrack /\ [][NextTrack]_vars

-----------------------------------------------------------------------------
(* Properties of the trackers (SpecTrack), stated on the log of frames *)

ControllersAndFilterReset ==
    /\ yaw.current_yaw = R(0) /\ yaw.integral = R(0) /\ yaw.last_error = R(0)
    /\ pitch.current_pitch = R(0) /\ pitch.integral = R(0) /\ pitch.last_error = R(0)
    /\ filt.x_history = <<>> /\ filt.y_history = <<>>
    /\ filt.last_output_x = None /\ filt.last_output_y = None

\* frame j is the first frame later than detection_timeout after frame i, the
\* last frame with a detection
TimedOutSince(i, j) ==
    /\ hist[i].det
    /\ \A k \in (i + 1)..j : ~hist[k].det
    /\ RLt(trk.detection_timeout, Seconds(hist[j].t - hist[i].t))

\* C4: when a frame without detection comes more than detection_timeout
\* after the last frame with a detection, then after that frame is_tracking
\* is false, both controllers have current angle, integral and last_error 0,
\* and the filter has empty windows and no last output.
C4_TimeoutResets ==
    (/\ op.name \in {"process_frame", "tracking_loop"}
     /\ \E i \in 1..(Len(hist) - 1) : TimedOutSince(i, Len(hist)))
    => (~trk.is_tracking /\ ControllersAndFilterReset)

\* a detection, a frame without detection inside the timeout, then the frame
\* that finds the timeout elapsed while angle and window were not at rest
C4_Witness ==
    /\ op.name \in {"process_frame", "tracking_loop"}
    /\ \E i \in 1..(Len(hist) - 2) : TimedOutSince(i, Len(hist))
    /\ op.before.trk.is_tracking
    /\ op.before.yaw_controller.current_yaw # R(0)
    /\ op.before.yaw_controller.last_error # R(0)
    /\ op.before.filter.x_history # <<>>
    /\ ~trk.is_tracking
    /\ ControllersAndFilterReset

\* C10: first frame of a fresh tracker, 640x480, one detection centred at
\* (400, 240), dead zone 0.05, Kp 0.8, Ki 0, Kd 0, gain 0.08: the yaw angle
\* becomes -(0.8 * 0.25 * 0.08) = -0.016 rad, the pitch angle stays 0, and
\* the one command issued carries these two angles (as degrees).
C10_Case ==
    /\ prog = "yolo"
    /\ Len(hist) = 1
    /\ op.name = "process_frame"
    /\ op.detections = <<BoxE>>
    /\ BoxCenter(BoxE) = <<R(400), R(240)>>
    /\ FrameWidth = 640 /\ FrameHeight = 480
    /\ op.before.yaw_controller.pid_p = Frac(8, 10)
    /\ op.before.yaw_controller.pid_i = R(0)
    /\ op.before.yaw_controller.pid_d = R(0)
    /\ op.before.yaw_controller.gain = Frac(8, 100)
    /\ op.before.yaw_controller.dead_zone = Frac(5, 100)
    /\ op.before.pitch_controller.pid_p = Frac(8, 10)
    /\ op.before.pitch_controller.pid_i = R(0)
    /\ op.before.pitch_controller.pid_d = R(0)
    /\ op.before.pitch_controller.gain = Frac(8, 100)
    /\ op.before.pitch_controller.dead_zone = Frac(5, 100)

C10_EndToEnd ==
    C10_Case =>
        /\ yaw.current_yaw = RNeg(RMul(RMul(Frac(8, 10), Frac(25, 100)), Frac(8, 100)))
        /\ yaw.current_yaw = Frac(-16, 1000)
        /\ pitch.current_pitch = R(0)
        /\ Len(cmds) = 1
        /\ cmds[1].yaw = Degrees(Frac(-16, 1000))
        /\ cmds[1].pitch = Degrees(R(0))

C10_Witness ==
    /\ C10_Case
    /\ yaw.current_yaw = Frac(-16, 1000)
    /\ Len(cmds) = 1
    /\ Radians(cmds[1].yaw) = Frac(-16, 1000)

-----------------------------------------------------------------------------
(* SpecKalman: one KalmanTracker driven through update, predict and reset   *)

MaxKalmanCalls == 4

NoiseChoices == { <<R(1), R(1)>>, <<Frac(1, 2), R(1)>> }
KalmanXs == { 0, 3, -4 }
KalmanYs == { 0, 5 }

InitKalman ==
    /\ prog = "kalman"
    /\ \E nz \in NoiseChoices : kal = KalmanTracker_init(nz[1], nz[2])
    /\ yaw = IdleYaw /\ pitch = IdlePitch /\ ot = IdleOt
    /\ filt = IdleFilt /\ vad = IdleVad /\ trk = IdleTrk
    /\ snd = IdleSnd /\ th = IdleTh /\ exc = FALSE
    /\ now = StartTime
    /\ cmds = <<>>
    /\ op = [name |-> "init"]
    /\ ret = None
    /\ hist = <<>>
    /\ n = 0

KalmanUpdate ==
    /\ prog = "kalman" /\ n < MaxKalmanCalls
    /\ \E mx \in KalmanXs, my \in KalmanYs :
          \E r \in {KalmanTracker_update(kal, R(mx), R(my))} :
              /\ kal' = r.self
              /\ ret' = r.ret
              /\ op' = [name |-> "update", x |-> R(mx), y |-> R(my), before |-> kal]
              /\ hist' = Append(hist, [name |-> "update",
                                       exact |-> r.ret = <<R(mx), R(my)>>])
    /\ n' = n + 1
    /\ UNCHANGED <<prog, yaw, pitch, ot, filt, vad, trk, snd, th, exc, now, cmds>>

KalmanPredict ==
    /\ prog = "kalman" /\ n < MaxKalmanCalls
    /\ \E r \in {KalmanTracker_predict(kal)} :
          /\ kal' = r.self
          /\ ret' = r.ret
    /\ op' = [name |-> "predict", before |-> kal]
    /\ hist' = Append(hist, [name |-> "predict", exact |-> FALSE])
    /\ n' = n + 1
    /\ UNCHANGED <<prog, yaw, pitch, ot, filt, vad, trk, snd, th, exc, now, cmds>>

KalmanReset ==
    /\ prog = "kalman" /\ n < MaxKalmanCalls
    /\ kal' = KalmanTracker_reset(kal)
    /\ ret' = None
    /\ op' = [name |-> "reset", before |-> kal]
    /\ hist' = Append(hist, [name |-> "reset", exact |-> FALSE])
    /\ n' = n + 1
    /\ UNCHANGED <<prog, yaw, pitch, ot, filt, vad, trk, snd, th, exc, now, cmds>>

NextKalman == KalmanUpdate \/ KalmanPredict \/ KalmanReset

SpecKalman == InitKalman /\ [][NextKalman]_vars

\* the call just made is the first update() since construction or since the
\* last reset()
FirstUpdate ==
    /\ op.name = "update"
    /\ \/ \A k \in 1..(Len(hist) - 1) : hist[k].name # "update"
       \/ \E k \in 1..(Len(hist) - 1) :
             /\ hist[k].name = "reset"
             /\ \A j \in (k + 1)..(Len(hist) - 1) : hist[j].name # "update"

\* C11: the first update(mx, my) of a new tracker returns exactly (mx, my)
\* and leaves the tracker initialized; reset() leaves it uninitialized, and
\* the first update(mx, my) after a reset returns exactly (mx, my) whatever
\* was fed before the reset.
C11_KalmanColdStart ==
    /\ FirstUpdate => (ret = <<op.x, op.y>> /\ kal.initialized)
    /\ op.name = "reset" => ~kal.initialized

\* update, an update the filter smoothed, reset, then an update returned as is
C11_Witness ==
    /\ Len(hist) = 4
    /\ hist[1].name = "update"
    /\ hist[2].name = "update" /\ ~hist[2].exact
    /\ hist[3].name = "reset"
    /\ FirstUpdate
    /\ ret = <<op.x, op.y>>
    /\ op.before.errorCovPost # ZeroCov

-----------------------------------------------------------------------------
(* Stopping the trackers (SpecTrack) *)

NeutralCommand(c) == c.pitch = R(0) /\ c.yaw = R(0)

\* C12: when stop() of the web variant returns, or main of track_object
\* has left its loop, after tracking has commanded the head, both
\* controllers and the filter are reset and the stop has issued a command
\* for the neutral pose.
C12_StopResets ==
    (op.name \in {"stop", "main_exit"} /\ op.before.cmds # <<>>) =>
        /\ ControllersAndFilterReset
        /\ Len(cmds) > Len(op.before.cmds)
        /\ NeutralCommand(cmds[Len(cmds)])

-----------------------------------------------------------------------------
(* SpecWebConc: the web variant with its threads interleaved.  The loop      *)
(* thread of _tracking_loop runs statement by statement; the API threads     *)
(* run start, stop, reset_tracking and the parameter updates.  th holds the  *)
(* loop thread's position and locals, the holder of TrackingManager.lock     *)
(* and the position of the API thread inside reset_tracking.                 *)

MaxApiCalls == 2

ConcDetLists == { <<>>, <<BoxE>> }
ConcClockSteps == { 1, 3 }

Loop_init ==
    [pc |-> "idle",              \* position of the loop thread
     lock |-> "free",            \* holder of the lock between steps
     api |-> "none",             \* position of the thread inside reset_tracking
     held |-> FALSE,             \* the loop's last step ran inside "with self.lock"
     wrote |-> FALSE,            \* the loop's last step wrote shared tracking state
     reset_done |-> FALSE,       \* reset_tracking returned, no tick has computed since
     calls |-> 0,                \* API calls made
     current_time |-> 0, dt |-> R(0), detections |-> <<>>,
     center |-> None, detection |-> None,
     filtered |-> None, new_pitch |-> None, new_yaw |-> None]

InitWebConc ==
    /\ prog = "webconc"
    /\ yaw = HeadYawController_init(Frac(1, 2), R(0), R(0))
    /\ pitch = HeadPitchController_init(Frac(1, 2), R(0), R(0))
    /\ filt = PositionFilter_init(5, 30)
    /\ trk = Tracker_init(StartTime)
    /\ th = Loop_init
    /\ ot = IdleOt /\ vad = IdleVad /\ kal = IdleKal /\ snd = IdleSnd
    /\ exc = FALSE
    /\ now = StartTime
    /\ cmds = <<>>
    /\ op = [name |-> "init"]
    /\ ret = None
    /\ hist = <<>>
    /\ n = 0

LoopStep(pc, held, wrote) ==
    [th EXCEPT !.pc = pc, !.held = held, !.wrote = wrote]

\* start(): lines 88-97
ConcStart ==
    /\ prog = "webconc" /\ th.lock = "free" /\ th.calls < MaxApiCalls
    /\ IF trk.is_running
       THEN /\ ret' = <<FALSE>>
            /\ th' = [th EXCEPT !.calls = @ + 1]
            /\ UNCHANGED trk
       ELSE /\ ret' = <<TRUE>>
            /\ trk' = [trk EXCEPT !.is_running = TRUE]
            /\ th' = [th EXCEPT !.calls = @ + 1, !.pc = "check"]
    /\ op' = [name |-> "start"]
    /\ UNCHANGED <<prog, yaw, pitch, ot, filt, vad, kal, snd, exc, now, cmds, hist, n>>

\* stop(): lines 99-105 (the join is bounded by its timeout)
ConcStop ==
    /\ prog = "webconc" /\ th.lock = "free" /\ th.calls < MaxApiCalls
    /\ trk' = [trk EXCEPT !.is_running = FALSE]
    /\ th' = [th EXCEPT !.calls = @ + 1]
    /\ ret' = None
    /\ op' = [name |-> "stop"]
    /\ UNCHANGED <<prog, yaw, pitch, ot, filt, vad, kal, snd, exc, now, cmds, hist, n>>

\* lines 110-114: the running check, the only statement of the loop under the lock
LoopCheck ==
    /\ prog = "webconc" /\ th.pc = "check" /\ th.lock = "free"
    /\ th' = LoopStep(IF trk.is_running THEN "frame" ELSE "idle", TRUE, FALSE)
    /\ op' = [name |-> "loop.check"]
    /\ ret' = None
    /\ UNCHANGED <<prog, yaw, pitch, ot, filt, vad, trk, kal, snd, exc, now, cmds,
                   hist, n>>

\* lines 117-121: no frame
LoopNoFrame ==
    /\ prog = "webconc" /\ th.pc = "frame" /\ n < MaxTicks
    /\ \E step \in ConcClockSteps : now' = now + step
    /\ th' = LoopStep("check", FALSE, FALSE)
    /\ op' = [name |-> "loop.no_frame"]
    /\ ret' = None
    /\ n' = n + 1
    /\ UNCHANGED <<prog, yaw, pitch, ot, filt, vad, trk, kal, snd, exc, cmds, hist>>

\* lines 117-130: a frame, the time step, the detector
LoopFrame ==
    /\ prog = "webconc" /\ th.pc = "frame" /\ n < MaxTicks
    /\ \E detections \in ConcDetLists, step \in ConcClockSteps :
          /\ now' = now + step
          /\ th' = [LoopStep("detected", FALSE, FALSE) EXCEPT
                      !.current_time = now + step,
                      !.dt = Seconds(now + step - trk.last_time),
                      !.detections = detections]
          /\ trk' = [trk EXCEPT !.last_time = now + step]
    /\ op' = [name |-> "loop.frame"]
    /\ ret' = None
    /\ n' = n + 1
    /\ UNCHANGED <<prog, yaw, pitch, ot, filt, vad, kal, snd, exc, cmds, hist>>

\* lines 132-140 and 173-174: detections seen, the target chosen
LoopDetected ==
    /\ prog = "webconc" /\ th.pc = "detected" /\ th.detections # <<>>
    /\ \E found \in {find_target_center(th.detections, FrameWidth, FrameHeight)} :
          /\ trk' = [trk EXCEPT
                       !.last_detection_time = th.current_time,
                       !.is_tracking = TRUE,
                       !.latest_info = IF found.center # None THEN @
                                       ELSE [is_tracking |-> FALSE]]
          /\ th' = [LoopStep(IF found.center # None THEN "filter" ELSE "check",
                             FALSE, TRUE)
                    EXCEPT !.center = found.center, !.detection = found.detection]
    /\ op' = [name |-> "loop.detected"]
    /\ ret' = None
    /\ UNCHANGED <<prog, yaw, pitch, ot, filt, vad, kal, snd, exc, now, cmds, hist, n>>

\* lines 175-183: no detection, the timeout check and its resets
LoopNotDetected ==
    /\ prog = "webconc" /\ th.pc = "detected" /\ th.detections = <<>>
    /\ IF RLt(trk.detection_timeout,
              Seconds(th.current_time - trk.last_detection_time))
       THEN /\ trk' = [trk EXCEPT !.is_tracking = FALSE,
                                  !.latest_info = [is_tracking |-> FALSE]]
            /\ pitch' = HeadPitchController_reset(pitch)
            /\ yaw' = HeadYawController_reset(yaw)
            /\ filt' = PositionFilter_reset(filt)
       ELSE /\ trk' = [trk EXCEPT !.latest_info = [is_tracking |-> FALSE]]
            /\ UNCHANGED <<pitch, yaw, filt>>
    /\ th' = LoopStep("check", FALSE, TRUE)
    /\ op' = [name |-> "loop.not_detected"]
    /\ ret' = None
    /\ UNCHANGED <<prog, ot, vad, kal, snd, exc, now, cmds, hist, n>>

\* line 147: the tick starts computing on the shared state
LoopFilter ==
    /\ prog = "webconc" /\ th.pc = "filter"
    /\ \E f \in {PositionFilter_filter(filt, th.center[1], th.center[2])} :
          /\ filt' = f.self
          /\ th' = [LoopStep("pitch_compute", FALSE, TRUE) EXCEPT
                      !.filtered = f.ret, !.reset_done = FALSE]
    /\ op' = [name |-> "loop.filter"]
    /\ ret' = None
    /\ UNCHANGED <<prog, yaw, pitch, ot, vad, trk, kal, snd, exc, now, cmds, hist, n>>

\* line 150
LoopPitchCompute ==
    /\ prog = "webconc" /\ th.pc = "pitch_compute"
    /\ \E r \in {HeadPitchController_compute(pitch, th.filtered[2], FrameHeight, th.dt)} :
          /\ pitch' = r.self
          /\ th' = [LoopStep("pitch_update", FALSE, TRUE) EXCEPT !.new_pitch = r.ret]
    /\ op' = [name |-> "loop.pitch_compute"]
    /\ ret' = None
    /\ UNCHANGED <<prog, yaw, ot, filt, vad, trk, kal, snd, exc, now, cmds, hist, n>>

\* line 151
LoopPitchUpdate ==
    /\ prog = "webconc" /\ th.pc = "pitch_update"
    /\ pitch' = HeadPitchController_update(pitch, th.new_pitch)
    /\ th' = LoopStep("yaw_compute", FALSE, TRUE)
    /\ op' = [name |-> "loop.pitch_update"]
    /\ ret' = None
    /\ UNCHANGED <<prog, yaw, ot, filt, vad, trk, kal, snd, exc, now, cmds, hist, n>>

\* line 153
LoopYawCompute ==
    /\ prog = "webconc" /\ th.pc = "yaw_compute"
    /\ \E r \in {HeadYawController_compute(yaw, th.filtered[1], FrameWidth, th.dt)} :
          /\ yaw' = r.self
          /\ th' = [LoopStep("yaw_update", FALSE, TRUE) EXCEPT !.new_yaw = r.ret]
    /\ op' = [name |-> "loop.yaw_compute"]
    /\ ret' = None
    /\ UNCHANGED <<prog, pitch, ot, filt, vad, trk, kal, snd, exc, now, cmds, hist, n>>

\* line 154
LoopYawUpdate ==
    /\ prog = "webconc" /\ th.pc = "yaw_update"
    /\ yaw' = HeadYawController_update(yaw, th.new_yaw)
    /\ th' = LoopStep("send", FALSE, TRUE)
    /\ op' = [name |-> "loop.yaw_update"]
    /\ ret' = None
    /\ UNCHANGED <<prog, pitch, ot, filt, vad, trk, kal, snd, exc, now, cmds, hist, n>>

\* lines 159-172 and 186: the command, then the info for the frontend
LoopSend ==
    /\ prog = "webconc" /\ th.pc = "send"
    /\ \E ok \in BOOLEAN : cmds' = send_control(cmds, th.new_pitch, th.new_yaw, ok)
    /\ trk' = [trk EXCEPT !.latest_info =
                  [is_tracking |-> TRUE,
                   target_center |-> th.center,
                   filtered_center |-> th.filtered,
                   pitch |-> pitch.current_pitch,
                   yaw |-> yaw.current_yaw,
                   detection_count |-> Len(th.detections),
                   detection_box |-> SubSeq(th.detection, 1, 4),
                   confidence |-> th.detection[5]]]
    /\ th' = LoopStep("check", FALSE, TRUE)
    /\ op' = [name |-> "loop.send"]
    /\ ret' = None
    /\ UNCHANGED <<prog, yaw, pitch, ot, filt, vad, kal, snd, exc, now, hist, n>>

\* reset_tracking(), lines 287-292, statement by statement under the lock
ApiResetPitch ==
    /\ prog = "webconc" /\ th.lock = "free" /\ th.calls < MaxApiCalls
    /\ pitch' = HeadPitchController_reset(pitch)
    /\ th' = [th EXCEPT !.lock = "api", !.api = "reset_yaw", !.calls = @ + 1,
                        !.wrote = FALSE]
    /\ op' = [name |-> "reset_tracking.pitch"]
    /\ ret' = None
    /\ UNCHANGED <<prog, yaw, ot, filt, vad, trk, kal, snd, exc, now, cmds, hist, n>>

ApiResetYaw ==
    /\ prog = "webconc" /\ th.api = "reset_yaw"
    /\ yaw' = HeadYawController_reset(yaw)
    /\ th' = [th EXCEPT !.api = "reset_filter", !.wrote = FALSE]
    /\ op' = [name |-> "reset_tracking.yaw"]
    /\ ret' = None
    /\ UNCHANGED <<prog, pitch, ot, filt, vad, trk, kal, snd, exc, now, cmds, hist, n>>

ApiResetFilter ==
    /\ prog = "webconc" /\ th.api = "reset_filter"
    /\ filt' = PositionFilter_reset(filt)
    /\ th' = [th EXCEPT !.api = "none", !.lock = "free", !.reset_done = TRUE,
                        !.wrote = FALSE]
    /\ op' = [name |-> "reset_tracking"]
    /\ ret' = None
    /\ UNCHANGED <<prog, yaw, pitch, ot, vad, trk, kal, snd, exc, now, cmds, hist, n>>

\* update_yaw_params / update_pitch_params, lines 244-266
ApiUpdateParams ==
    /\ prog = "webconc" /\ th.lock = "free" /\ th.calls < MaxApiCalls
    /\ \E pid \in PidChoices :
          \/ /\ yaw' = [yaw EXCEPT !.pid_p = pid[1], !.pid_i = pid[2], !.pid_d = pid[3]]
             /\ op' = [name |-> "update_yaw_params"]
             /\ UNCHANGED pitch
          \/ /\ pitch' = [pitch EXCEPT !.pid_p = pid[1], !.pid_i = pid[2],
                                       !.pid_d = pid[3]]
             /\ op' = [name |-> "update_pitch_params"]
             /\ UNCHANGED yaw
    /\ th' = [th EXCEPT !.calls = @ + 1, !.wrote = FALSE]
    /\ ret' = None
    /\ UNCHANGED <<prog, ot, filt, vad, trk, kal, snd, exc, now, cmds, hist, n>>

\* update_filter_settings, lines 276-285
ApiUpdateFilterSettings ==
    /\ prog = "webconc" /\ th.lock = "free" /\ th.calls < MaxApiCalls
    /\ \E window_size \in {None, <<3>>}, jump_threshold \in {None, <<31>>} :
          LET f1 == IF window_size # None
                    THEN PositionFilter_init(window_size[1], filt.jump_threshold)
                    ELSE filt
          IN  filt' = IF jump_threshold # None
                      THEN [f1 EXCEPT !.jump_threshold = jump_threshold[1]]
                      ELSE f1
    /\ th' = [th EXCEPT !.calls = @ + 1, !.wrote = FALSE]
    /\ op' = [name |-> "update_filter_settings"]
    /\ ret' = None
    /\ UNCHANGED <<prog, yaw, pitch, ot, vad, trk, kal, snd, exc, now, cmds, hist, n>>

NextWebConc ==
    \/ ConcStart \/ ConcStop
    \/ LoopCheck \/ LoopNoFrame \/ LoopFrame \/ LoopDetected \/ LoopNotDetected
    \/ LoopFilter \/ LoopPitchCompute \/ LoopPitchUpdate
    \/ LoopYawCompute \/ LoopYawUpdate \/ LoopSend
    \/ ApiResetPitch \/ ApiResetYaw \/ ApiResetFilter
    \/ ApiUpdateParams \/ ApiUpdateFilterSettings

SpecWebConc == InitWebConc /\ [][NextWebConc]_vars

\* C13: every step of the loop thread that writes shared tracking state
\* runs under TrackingManager.lock; and from the return of reset_tracking()
\* until a tick next starts computing, both current angles and both
\* integrals are 0 and the filter is empty.
C13_ResetNotOverwritten ==
    /\ th.wrote => th.held
    /\ th.reset_done =>
          /\ pitch.current_pitch = R(0) /\ yaw.current_yaw = R(0)
          /\ pitch.integral = R(0) /\ yaw.integral = R(0)
          /\ filt.x_history = <<>> /\ filt.y_history = <<>>

-----------------------------------------------------------------------------
(* SpecSound: the SoundTracker of sound_tracking.py, one update() per loop   *)
(* iteration of main, and reset() on the 'r' key.                            *)

MaxSoundTicks == 4

SoundModes == { "head", "body", "hybrid" }
\* DoA angles in radians: to the left (yaw 90), to the right (yaw -90), and
\* 80 degrees (yaw 10)
DoaLeft == R(0)
DoaRight == PiApprox
DoaNearFront == RDiv(RMul(R(80), PiApprox), R(180))
DoaResults ==
    { None, <<DoaLeft, FALSE>>, <<DoaLeft, TRUE>>, <<DoaRight, TRUE>>,
      <<DoaNearFront, TRUE>> }
SoundClockSteps == { 1, 5 }
\* --pid-p, --pid-i, --pid-d
SoundPidChoices == { <<Frac(1, 2), R(1), R(0)>> }

InitSound ==
    /\ prog = "sound"
    /\ \E mode \in SoundModes, pid \in SoundPidChoices :
          snd = SoundTracker_init(mode, Frac(3, 10), Frac(1, 2), mode # "body",
                                  pid[1], pid[2], pid[3], StartTime)
    /\ yaw = IdleYaw /\ pitch = IdlePitch /\ ot = IdleOt
    /\ filt = IdleFilt /\ vad = IdleVad /\ trk = IdleTrk
    /\ kal = IdleKal /\ th = IdleTh /\ exc = FALSE
    /\ now = StartTime
    /\ cmds = <<>>
    /\ op = [name |-> "init"]
    /\ ret = None
    /\ hist = <<>>
    /\ n = 0

\* whether an exception of goto_target leaves _execute_control: caught
execute_control_raises(ok) == FALSE

\* the calls on the robot that move head or body
GotoCommands(issued) == SelectSeq(issued, LAMBDA c : c.call = "goto_target")

SoundUpdate ==
    /\ prog = "sound" /\ n < MaxSoundTicks /\ ~exc
    /\ \E doa_result \in DoaResults, step \in SoundClockSteps :
       LET current_time == now + step
           fires == doa_result # None
                    /\ VoiceActivityDetector_update(snd.vad, doa_result[2],
                                                    current_time).ret
           tracks == fires \/ snd.state = "tracking"
       IN
       \* ok: whether the calls on the robot made in this iteration succeed
       \E ok \in IF tracks THEN BOOLEAN ELSE {TRUE} :
          \E r \in {SoundTracker_update(snd, doa_result, current_time, ok, ok)} :
              /\ now' = current_time
              /\ snd' = r
              /\ exc' = (Len(GotoCommands(r.cmds)) > Len(GotoCommands(snd.cmds))
                         /\ execute_control_raises(ok))
              /\ op' = [name |-> "update", doa_result |-> doa_result,
                        fired |-> fires, before |-> snd]
              /\ hist' = Append(hist, [t |-> current_time, det |-> fires])
    /\ ret' = None
    /\ n' = n + 1
    /\ UNCHANGED <<prog, yaw, pitch, ot, filt, vad, trk, kal, th, cmds>>

SoundReset ==
    /\ prog = "sound" /\ n < MaxSoundTicks /\ ~exc
    /\ \E ok \in BOOLEAN :
          snd' = SoundTracker_reset(snd, now, ok, ok)
    /\ op' = [name |-> "reset", doa_result |-> None, fired |-> FALSE, before |-> snd]
    /\ ret' = None
    /\ n' = n + 1
    /\ UNCHANGED <<prog, yaw, pitch, ot, filt, vad, trk, kal, th, exc, now, cmds, hist>>

NextSound == SoundUpdate \/ SoundReset

SpecSound == InitSound /\ [][NextSound]_vars

-----------------------------------------------------------------------------
(* SpecOt: the pid-only ObjectTracker of object_tracking.py, frame by frame  *)

\* int(): truncation towards zero
RTrunc(a) == IF a[1] >= 0 THEN a[1] \div a[2] ELSE -((-a[1]) \div a[2])

\* whether an exception of look_at_image leaves update_control: caught
update_control_raises(ok) == FALSE

\* update_control, lines 251-293
update_control(self, detection, frame_width, frame_height, dt, ok) ==
    LET det_center_x == Frac(detection[1] + detection[3], 2)
        det_center_y == Frac(detection[2] + detection[4], 2)
        error_x == normalize_to_center(det_center_x, frame_width)
        error_y == normalize_to_center(det_center_y, frame_height)
        c == pid_control(self, error_x, error_y, dt)
        control_x == RClip(c.ret[1], R(-1), R(1))
        control_y == RClip(c.ret[2], R(-1), R(1))
        offset_x == RTrunc(RMul(RMul(control_x, R(frame_width)), Frac(1, 10)))
        offset_y == RTrunc(RMul(RMul(control_y, R(frame_height)), Frac(1, 10)))
        target_x == RTrunc(RAdd(Frac(frame_width, 2), R(offset_x)))
        target_y == RTrunc(RAdd(Frac(frame_height, 2), R(offset_y)))
    IN  IF RLt(RAbs(error_x), self.dead_zone) /\ RLt(RAbs(error_y), self.dead_zone)
        THEN self
        ELSE [c.self EXCEPT !.cmds = Append(@,
                 [call |-> "look_at_image", x |-> target_x, y |-> target_y,
                  duration |-> self.control_speed, ok |-> ok])]

\* track, lines 332-391; target_detections are the detections of the target class
ObjectTracker_track(self, target_detections, height, width, current_time, ok) ==
    LET dt == IF self.last_detection_time > 0
              THEN Seconds(current_time - self.last_detection_time)
              ELSE Frac(3, 100)
        target_detection == select_best_target(target_detections, width, height)
    IN  IF target_detection # None
        THEN update_control([self EXCEPT !.is_tracking = TRUE,
                                         !.last_detection_time = current_time],
                            target_detection, width, height, dt, ok)
        ELSE IF RLt(self.detection_timeout,
                    Seconds(current_time - self.last_detection_time))
        THEN [self EXCEPT !.is_tracking = FALSE,
                          !.integral_x = R(0), !.integral_y = R(0),
                          !.last_error_x = R(0), !.last_error_y = R(0)]
        ELSE self

OtPidChoices == { <<Frac(4, 5), R(0), Frac(1, 5)>>, <<R(1), R(1), R(0)>> }

InitOt ==
    /\ prog = "track"
    /\ \E pid \in OtPidChoices : ot = ObjectTracker_init(pid[1], pid[2], pid[3])
    /\ yaw = IdleYaw /\ pitch = IdlePitch
    /\ filt = IdleFilt /\ vad = IdleVad /\ trk = IdleTrk
    /\ kal = IdleKal /\ snd = IdleSnd /\ th = IdleTh /\ exc = FALSE
    /\ now = StartTime
    /\ cmds = <<>>
    /\ op = [name |-> "init"]
    /\ ret = None
    /\ hist = <<>>
    /\ n = 0

\* one iteration of the loop of main: track(frame)
OtTrack ==
    /\ prog = "track" /\ n < MaxTicks /\ ~exc
    /\ \E detections \in TrackDetLists, step \in TrackClockSteps :
       \E ok \in IF detections = <<>> THEN {TRUE} ELSE BOOLEAN :
          LET current_time == now + step IN
          \E r \in {ObjectTracker_track(ot, detections, FrameHeight, FrameWidth,
                                       current_time, ok)} :
              /\ now' = current_time
              /\ ot' = r
              /\ exc' = (Len(r.cmds) > Len(ot.cmds) /\ update_control_raises(ok))
              /\ op' = [name |-> "track", detections |-> detections, before |-> ot]
              /\ hist' = Append(hist, [t |-> current_time, det |-> detections # <<>>])
    /\ ret' = None
    /\ n' = n + 1
    /\ UNCHANGED <<prog, yaw, pitch, filt, vad, trk, kal, snd, th, cmds>>

NextOt == OtTrack

SpecOt == InitOt /\ [][NextOt]_vars

-----------------------------------------------------------------------------
(* SpecTick: any one of the four trackers, tick after tick *)

InitTick == InitTrack \/ InitSound \/ InitOt

NextTick == NextTrack \/ NextSound \/ NextOt

SpecTick == InitTick /\ [][NextTick]_vars

\* the last call was a tracking tick
IsTick == op.name \in {"process_frame", "tracking_loop", "update", "track"}

\* the head / body motion commands of the tracker, now and before the tick
CmdLog ==
    CASE prog = "sound" -> GotoCommands(snd.cmds)
      [] prog = "track" -> ot.cmds
      [] OTHER -> cmds

CmdLogBefore ==
    CASE prog = "sound" -> GotoCommands(op.before.cmds)
      [] OTHER -> op.before.cmds

\* the tick had a target to steer to, so it reached the actuator call
HasTarget ==
    CASE prog = "sound" -> snd.state = "tracking"
      [] prog = "track" ->
           /\ op.detections # <<>>
           /\ LET c == BoxCenter(select_best_target(op.detections, FrameWidth,
                                                    FrameHeight))
              IN  ~(/\ InsideDeadZone(c[1], FrameWidth, ot.dead_zone)
                    /\ InsideDeadZone(c[2], FrameHeight, ot.dead_zone))
      [] OTHER -> op.detections # <<>>

\* C14: a tick whose actuator call raises still ends normally: no exception
\* leaves the tick, at most one command is attempted per tick, the loop is
\* still running, the bookkeeping that follows the call is done, and every
\* tick with a target attempts a command of its own, also right after a
\* failed one.
C14_ActuatorFailureContained ==
    IsTick =>
        /\ ~exc
        /\ Len(CmdLog) <= Len(CmdLogBefore) + 1
        /\ HasTarget => Len(CmdLog) = Len(CmdLogBefore) + 1
        /\ prog = "yolo" => (th.pc = "main_loop" /\ ret # None)
        /\ prog = "web" => /\ trk.is_running
                           /\ HasTarget => trk.latest_info.is_tracking

\* a tick whose command raised, then a tick with a target and a new command
C14_Witness ==
    /\ IsTick /\ HasTarget
    /\ prog = "web"
    /\ trk.latest_info.is_tracking
    /\ Len(CmdLogBefore) >= 1
    /\ ~CmdLogBefore[Len(CmdLogBefore)].ok
    /\ Len(CmdLog) = Len(CmdLogBefore) + 1
    /\ ~exc

-----------------------------------------------------------------------------
(* The timeout tick (SpecTick) *)

\* the tick just made found the detection timeout elapsed and dropped the
\* target
TimeoutTick ==
    /\ IsTick
    /\ CASE prog = "sound" -> op.before.state = "tracking" /\ snd.state = "lost"
         [] prog \in {"yolo", "web"} -> op.before.trk.is_tracking /\ ~trk.is_tracking
         [] OTHER -> FALSE

\* the tick issued a command, and it is for the rest pose
IssuedNeutralCommand ==
    /\ Len(CmdLog) > Len(CmdLogBefore)
    /\ LET c == CmdLog[Len(CmdLog)]
       IN  IF prog = "sound"
           THEN c.head_yaw \in {None, <<R(0)>>} /\ c.body_yaw \in {None, <<R(0)>>}
           ELSE NeutralCommand(c)

\* C15: the tick that finds the detection timeout elapsed and resets the
\* controllers issues a command for the neutral pose, so the last commanded
\* pose is the reset angle 0.
C15_TimeoutCommandsNeutral == TimeoutTick => IssuedNeutralCommand

-----------------------------------------------------------------------------
(* Properties of the sound tracker (SpecSound) *)

\* the update() just made ran _execute_control
ControlTick ==
    /\ prog = "sound" /\ op.name = "update"
    /\ snd.state = "tracking"

LastGoto == CmdLog[Len(CmdLog)]

\* C16: in hybrid mode every control tick issues one command; for
\* |current_yaw| <= 25 degrees it is a head command with yaw = current_yaw and
\* no body part; otherwise the head gets 25 degrees with the sign of
\* current_yaw and the body the rest, |current_yaw| - 25, with that sign.  So
\* the head stays within 25 degrees and the body within its 160 degrees.
C16_HybridSplit ==
    (ControlTick /\ snd.mode = "hybrid") =>
        /\ Len(CmdLog) = Len(CmdLogBefore) + 1
        /\ LET y == snd.current_yaw
               c == LastGoto
           IN  /\ c.head_yaw # None
               /\ IF RLe(R(-25), y) /\ RLe(y, R(25))
                  THEN c.head_yaw[1] = y /\ c.body_yaw = None
                  ELSE IF RLt(R(25), y)
                  THEN /\ c.head_yaw[1] = R(25)
                       /\ c.body_yaw = <<Radians(RSub(y, R(25)))>>
                  ELSE /\ c.head_yaw[1] = R(-25)
                       /\ c.body_yaw = <<Radians(RAdd(y, R(25)))>>
               /\ WithinLimit(c.head_yaw[1], R(25))
               /\ c.body_yaw # None => WithinLimit(c.body_yaw[1], Radians(R(160)))

\* a control tick beyond the head threshold: yaw 35 is split into head 25
\* and body 10
C16_Witness ==
    /\ ControlTick /\ snd.mode = "hybrid"
    /\ snd.current_yaw = R(35)
    /\ LastGoto.head_yaw = <<R(25)>>
    /\ LastGoto.body_yaw = <<Radians(R(10))>>

-----------------------------------------------------------------------------
(* Commit of the new angles (SpecTrack) *)

\* C17: when the actuator command of a tick raises, both controllers keep
\* the current angle they had before the tick: update(new_angle) commits
\* only after the command was issued successfully.
C17_CommitAfterSend ==
    (/\ op.name \in {"process_frame", "tracking_loop"}
     /\ Len(cmds) > Len(op.before.cmds)
     /\ ~cmds[Len(cmds)].ok)
    => /\ yaw.current_yaw = op.before.yaw_controller.current_yaw
       /\ pitch.current_pitch = op.before.pitch_controller.current_pitch

-----------------------------------------------------------------------------
(* State machine of the sound tracker (SpecSound) *)

\* the timeout was elapsed at the tick just made, counted from the last
\* accepted detection before it
TimeoutElapsed ==
    RLt(op.before.detection_timeout,
        Seconds(now - op.before.last_detection_time))

\* C18: the state of the SoundTracker is idle, tracking or lost.  A tick on
\* which the gate fires ends in tracking, whatever the state was; a tick
\* changes the state only to tracking (the gate fired) or from tracking to
\* lost (no fire, timeout elapsed), and a tracking tick with the timeout
\* elapsed and no fire does go to lost; only reset() makes the state idle.
\* A tick issues a yaw command only if it ends in tracking.
C18_StateTransitions ==
    prog = "sound" =>
        /\ snd.state \in {"idle", "tracking", "lost"}
        /\ op.name = "reset" => snd.state = "idle"
        /\ op.name = "update" =>
              /\ op.fired => snd.state = "tracking"
              /\ snd.state # op.before.state =>
                    \/ snd.state = "tracking" /\ op.fired
                    \/ /\ snd.state = "lost" /\ op.before.state = "tracking"
                       /\ ~op.fired /\ TimeoutElapsed
              /\ (op.before.state = "tracking" /\ ~op.fired /\ TimeoutElapsed)
                    => snd.state = "lost"
              /\ Len(CmdLog) > Len(CmdLogBefore) => snd.state = "tracking"

\* idle -> tracking -> lost -> tracking: the fourth tick fires again
C18_Witness ==
    /\ prog = "sound" /\ op.name = "update"
    /\ op.before.state = "lost" /\ op.fired
    /\ snd.state = "tracking"
    /\ Len(CmdLog) = Len(CmdLogBefore) + 1

-----------------------------------------------------------------------------
(* The windows of the position filter (SpecFilter) *)

\* history a is history b after one push into a window of the given size:
\* b with the new sample appended, less b's oldest sample if b was full
PushedInto(a, b, size) ==
    IF Len(b) >= size
    THEN /\ Len(a) = size
         /\ \A k \in 1..(size - 1) : a[k] = b[k + 1]
    ELSE /\ Len(a) = Len(b) + 1
         /\ \A k \in 1..Len(b) : a[k] = b[k]

\* C19: the x and y histories never hold more than window_size samples;
\* filter() pushes one sample into each, evicting the oldest one from a full
\* window; reset() empties them.
C19_WindowBounded ==
    prog = "filter" =>
        /\ Len(filt.x_history) <= filt.window_size
        /\ Len(filt.y_history) <= filt.window_size
        /\ op.name = "filter" =>
              /\ PushedInto(filt.x_history, op.before.x_history, filt.window_size)
              /\ PushedInto(filt.y_history, op.before.y_history, filt.window_size)
        /\ op.name = "reset" => (filt.x_history = <<>> /\ filt.y_history = <<>>)

\* a push into a full window of more than one sample whose oldest sample
\* differs from the others
C19_Witness ==
    /\ prog = "filter" /\ op.name = "filter"
    /\ filt.window_size >= 2
    /\ Len(op.before.x_history) = filt.window_size
    /\ op.before.x_history[1] # op.before.x_history[2]
    /\ filt.x_history[1] = op.before.x_history[2]
    /\ Len(filt.x_history) = filt.window_size

-----------------------------------------------------------------------------
(* The controllers at dt <= 0 (SpecCtl) *)

\* x limited to [-bound, bound]
Limited(x, bound) == RMax(RNeg(bound), RMin(bound, x))

\* the error of a target, (target - frame/2) / (frame/2)
ErrorOf(target, frame) == RDiv(RSub(target, Frac(frame, 2)), Frac(frame, 2))

\* the integral after a call: the one before plus error * dt, held in [-1, 1]
IntegralAfter(integral, error, dt) == Limited(RAdd(integral, RMul(error, dt)), R(1))

\* the control value made of the proportional and the integral term only
PIControl(p, i, integral, error, dt) ==
    RAdd(RMul(p, error), RMul(i, IntegralAfter(integral, error, dt)))

\* the last call was made with dt <= 0
NonPositiveDt == RLe(op.dt, R(0))

\* C20: with dt <= 0 the derivative term is 0 and the proportional and the
\* clamped integral term are applied: outside the dead zone the yaw and the
\* pitch controller return the current angle moved by gain times the control
\* value p*e + i*integral (limited to [-1, 1]; subtracted for yaw, added for
\* pitch) and limited to the angle limit; pid_control returns p*e + i*integral
\* for each axis. The call returns a value.
C20_NonPositiveDtNoDerivative ==
    /\ (op.name = "yaw.compute" /\ NonPositiveDt
          /\ ~InsideDeadZone(op.target, op.frame, op.before.dead_zone)) =>
          LET b == op.before
              e == ErrorOf(op.target, op.frame)
              control == Limited(PIControl(b.pid_p, b.pid_i, b.integral, e, op.dt), R(1))
          IN  /\ ret # None
              /\ ret = Limited(RSub(b.current_yaw, RMul(control, b.gain)), b.yaw_limit)
              /\ yaw.integral = IntegralAfter(b.integral, e, op.dt)
    /\ (op.name = "pitch.compute" /\ NonPositiveDt
          /\ ~InsideDeadZone(op.target, op.frame, op.before.dead_zone)) =>
          LET b == op.before
              e == ErrorOf(op.target, op.frame)
              control == Limited(PIControl(b.pid_p, b.pid_i, b.integral, e, op.dt), R(1))
          IN  /\ ret # None
              /\ ret = Limited(RAdd(b.current_pitch, RMul(control, b.gain)), b.pitch_limit)
              /\ pitch.integral = IntegralAfter(b.integral, e, op.dt)
    /\ (op.name = "pid_control" /\ NonPositiveDt) =>
          LET b == op.before
          IN  /\ ret # None
              /\ ret = << PIControl(b.pid_p, b.pid_i, b.integral_x, op.error_x, op.dt),
                          PIControl(b.pid_p, b.pid_i, b.integral_y, op.error_y, op.dt) >>
              /\ ot.integral_x = IntegralAfter(b.integral_x, op.error_x, op.dt)
              /\ ot.integral_y = IntegralAfter(b.integral_y, op.error_y, op.dt)

\* a yaw compute() at dt = 0 outside the dead zone, with a derivative gain, an
\* error that changed since the call before and an integral term at work,
\* that returned a moved angle
C20_Witness ==
    /\ op.name = "yaw.compute" /\ op.dt = R(0)
    /\ ~InsideDeadZone(op.target, op.frame, op.before.dead_zone)
    /\ op.before.pid_d # R(0)
    /\ op.before.pid_i # R(0)
    /\ op.before.integral # R(0)
    /\ ErrorOf(op.target, op.frame) # op.before.last_error
    /\ ret # op.before.current_yaw

-----------------------------------------------------------------------------
(* Frames without detection inside the timeout (SpecTrack) *)

\* the frame just processed had no detection and came no later than
\* detection_timeout after the last detection
GapInsideTimeout ==
    /\ op.name \in {"process_frame", "tracking_loop"}
    /\ op.detections = <<>>
    /\ RLe(Seconds(now - op.before.trk.last_detection_time),
           op.before.trk.detection_timeout)

\* C21: a frame without detection that comes no later than detection_timeout
\* after the last detection leaves is_tracking, both controllers (current
\* angle, integral, last_error) and the filter (windows, last output) as they
\* were, and issues no command.
C21_GapLeavesStateAlone ==
    GapInsideTimeout =>
        /\ trk.is_tracking = op.before.trk.is_tracking
        /\ yaw = op.before.yaw_controller
        /\ pitch = op.before.pitch_controller
        /\ filt = op.before.filter
        /\ cmds = op.before.cmds

\* such a frame while the tracker is tracking, with a moved head and a sample
\* in the window
C21_Witness ==
    /\ GapInsideTimeout
    /\ trk.is_tracking
    /\ yaw.current_yaw # R(0)
    /\ yaw.last_error # R(0)
    /\ filt.x_history # <<>>
    /\ filt.last_output_x # None
    /\ cmds # <<>>

-----------------------------------------------------------------------------
(* Jump suppression axis by axis (SpecFilter) *)

\* the sample the last filter() call pushed into a window
Pushed(history) == history[Len(history)]

\* C22: on a filter() call after the first, an axis whose own
\* |new - last_output| is at most jump_threshold gets the raw value pushed
\* into its window, whatever the delta on the other axis is.
C22_SuppressionPerAxis ==
    (/\ prog = "filter" /\ op.name = "filter"
     /\ op.before.last_output_x # None)
    => /\ Within(op.x, op.before.last_output_x, R(op.before.jump_threshold))
            => Pushed(filt.x_history) = op.x
       /\ Within(op.y, op.before.last_output_y, R(op.before.jump_threshold))
            => Pushed(filt.y_history) = op.y

-----------------------------------------------------------------------------
(* SpecWebThreads: the life of the loop threads of the web variant.  The     *)
(* handlers of api.py are coroutines that call start() and stop() without    *)
(* awaiting, so one handler runs at a time; the loop threads run beside      *)
(* them.  th.loops holds the position of every loop thread launched so far,  *)
(* th.thread the index of self.thread (0 for None).  A loop iteration is     *)
(* the running check under the lock, then the body, during which the clock   *)
(* may advance while the thread waits for the camera, the detector or the    *)
(* robot.                                                                    *)

MaxLoopThreads == 2
MaxLifeCalls == 3

\* self.thread.join(timeout=2.0)
JoinTimeout == R(2)

LifeDetLists == { <<>>, <<BoxE>> }
LifeClockSteps == { 1, 3 }

Threads_init ==
    [loops |-> <<>>,          \* "check", "body" or "exited" for each thread
     thread |-> 0,            \* self.thread
     api |-> "none",          \* "join" while stop() waits in join
     join_start |-> 0,        \* the time the join began
     calls |-> 0,             \* start() and stop() calls made
     stopped |-> FALSE]       \* stop() has returned and start() was not called since

InitWebThreads ==
    /\ prog = "webthreads"
    /\ yaw = HeadYawController_init(Frac(1, 2), R(0), R(0))
    /\ pitch = HeadPitchController_init(Frac(1, 2), R(0), R(0))
    /\ filt = PositionFilter_init(5, 30)
    /\ trk = Tracker_init(StartTime)
    /\ th = Threads_init
    /\ ot = IdleOt /\ vad = IdleVad /\ kal = IdleKal /\ snd = IdleSnd
    /\ exc = FALSE
    /\ now = StartTime
    /\ cmds = <<>>
    /\ op = [name |-> "init"]
    /\ ret = None
    /\ hist = <<>>
    /\ n = 0

\* the loop threads that have not left _tracking_loop
AliveLoops == { t \in 1..Len(th.loops) : th.loops[t] # "exited" }

\* the loop threads inside the body of an iteration
LoopsInBody == { t \in 1..Len(th.loops) : th.loops[t] = "body" }

\* start(), lines 88-97
ThreadsStart ==
    /\ prog = "webthreads" /\ th.api = "none" /\ th.calls < MaxLifeCalls
    /\ IF trk.is_running
       THEN /\ ret' = <<FALSE>>
            /\ th' = [th EXCEPT !.calls = @ + 1, !.stopped = FALSE]
            /\ UNCHANGED trk
       ELSE /\ Len(th.loops) < MaxLoopThreads
            /\ ret' = <<TRUE>>
            /\ trk' = [trk EXCEPT !.is_running = TRUE]
            /\ th' = [th EXCEPT !.calls = @ + 1, !.stopped = FALSE,
                                !.loops = Append(@, "check"),
                                !.thread = Len(th.loops) + 1]
    /\ op' = [name |-> "start", alive |-> AliveLoops]
    /\ UNCHANGED <<prog, yaw, pitch, ot, filt, vad, kal, snd, exc, now, cmds, hist, n>>

\* stop(), lines 99-103: the flag is cleared; without a thread there is
\* nothing to join and stop() returns
ThreadsStop ==
    /\ prog = "webthreads" /\ th.api = "none" /\ th.calls < MaxLifeCalls
    /\ trk' = [trk EXCEPT !.is_running = FALSE]
    /\ th' = IF th.thread = 0
             THEN [th EXCEPT !.calls = @ + 1, !.stopped = TRUE]
             ELSE [th EXCEPT !.calls = @ + 1, !.api = "join", !.join_start = now]
    /\ op' = [name |-> IF th.thread = 0 THEN "stop" ELSE "stop.join"]
    /\ ret' = None
    /\ UNCHANGED <<prog, yaw, pitch, ot, filt, vad, kal, snd, exc, now, cmds, hist, n>>

\* the join has waited for its timeout
JoinTimesOut(joined_thread) == now - th.join_start >= TicksFor(JoinTimeout)

\* stop(), lines 104-105: join returns when the thread has ended or the
\* timeout has passed, and stop() returns
ThreadsJoinReturn ==
    /\ prog = "webthreads" /\ th.api = "join"
    /\ th.loops[th.thread] = "exited" \/ JoinTimesOut(th.thread)
    /\ th' = [th EXCEPT !.api = "none", !.stopped = TRUE]
    /\ op' = [name |-> "stop", exited |-> th.loops[th.thread] = "exited"]
    /\ ret' = None
    /\ UNCHANGED <<prog, yaw, pitch, ot, filt, vad, trk, kal, snd, exc, now, cmds,
                   hist, n>>

\* lines 110-114: the running check of a loop thread
ThreadCheck ==
    /\ prog = "webthreads"
    /\ \E t \in 1..Len(th.loops) :
          /\ th.loops[t] = "check"
          /\ th' = [th EXCEPT !.loops[t] = IF trk.is_running THEN "body" ELSE "exited"]
          /\ op' = [name |-> "loop.check", thread |-> t]
    /\ ret' = None
    /\ UNCHANGED <<prog, yaw, pitch, ot, filt, vad, trk, kal, snd, exc, now, cmds,
                   hist, n>>

\* time passes while a loop thread is inside get_frame, detect or set_target
ThreadWaits ==
    /\ prog = "webthreads" /\ n < MaxTicks
    /\ LoopsInBody # {}
    /\ \E step \in LifeClockSteps : now' = now + step
    /\ op' = [name |-> "loop.waits"]
    /\ ret' = None
    /\ n' = n + 1
    /\ UNCHANGED <<prog, yaw, pitch, ot, filt, vad, trk, th, kal, snd, exc, cmds, hist>>

\* lines 117-121: an iteration without a frame ends
ThreadNoFrame ==
    /\ prog = "webthreads" /\ n < MaxTicks
    /\ \E t \in LoopsInBody :
          /\ th' = [th EXCEPT !.loops[t] = "check"]
          /\ op' = [name |-> "loop.no_frame", thread |-> t, stopped |-> th.stopped]
    /\ ret' = None
    /\ n' = n + 1
    /\ UNCHANGED <<prog, yaw, pitch, ot, filt, vad, trk, kal, snd, exc, now, cmds, hist>>

\* lines 123-186: an iteration with a frame ends
ThreadTick ==
    /\ prog = "webthreads" /\ n < MaxTicks
    /\ \E t \in LoopsInBody, detections \in LifeDetLists :
       \E ok \in IF detections = <<>> THEN {TRUE} ELSE BOOLEAN :
       \E r \in {tracking_loop_body(Tracker, detections, FrameHeight, FrameWidth,
                                   now, ok)} :
          /\ yaw' = r.yaw_controller
          /\ pitch' = r.pitch_controller
          /\ filt' = r.filter
          /\ trk' = r.trk
          /\ cmds' = r.cmds
          /\ th' = [th EXCEPT !.loops[t] = "check"]
          /\ op' = [name |-> "loop.tick", thread |-> t, stopped |-> th.stopped,
                    before |-> Tracker]
    /\ ret' = None
    /\ n' = n + 1
    /\ UNCHANGED <<prog, ot, vad, kal, snd, exc, now, hist>>

NextWebThreads ==
    \/ ThreadsStart \/ ThreadsStop \/ ThreadsJoinReturn
    \/ ThreadCheck \/ ThreadWaits \/ ThreadNoFrame \/ ThreadTick

SpecWebThreads == InitWebThreads /\ [][NextWebThreads]_vars

\* C23: once stop() has returned, and until start() is called again, every
\* loop thread has left the loop, and no tick runs: no tick ends with
\* stop() returned before it.
C23_StoppedLoopQuiet ==
    /\ th.stopped => AliveLoops = {}
    /\ op.name \in {"loop.tick", "loop.no_frame"} => ~op.stopped

\* C27: at most one loop thread is inside an iteration at any time; start()
\* returns True, launching a loop, only when no loop thread is running, and
\* returns False, launching none, otherwise.
C27_OneLoopThread ==
    prog = "webthreads" =>
        /\ Cardinality(LoopsInBody) <= 1
        /\ op.name = "start" => (ret = <<TRUE>> <=> op.alive = {})

-----------------------------------------------------------------------------
(* The antennas of the sound tracker (SpecSound) *)

\* the antenna commands of a log of calls on the robot
AntennaCommands(issued) == SelectSeq(issued, LAMBDA c : c.antennas # None)

\* the antennas were last commanded to the given position (in degrees)
AntennaLastAt(angles) ==
    LET a == AntennaCommands(snd.cmds)
    IN  /\ a # <<>>
        /\ a[Len(a)].antennas = <<Radians(angles[1]), Radians(angles[2])>>

\* C24: with antenna feedback enabled, after every update() and reset() the
\* antennas were last commanded to the active position exactly when the
\* state is TRACKING.
C24_AntennaShowsTracking ==
    (prog = "sound" /\ snd.enable_antenna /\ op.name \in {"update", "reset"})
    => (AntennaLastAt(AntennaActive) <=> snd.state = "tracking")

\* a reset() of a tracker that was tracking with its antennas active
C24_Witness ==
    /\ prog = "sound" /\ snd.enable_antenna /\ op.name = "reset"
    /\ op.before.state = "tracking"
    /\ Len(AntennaCommands(op.before.cmds)) >= 1
    /\ AntennaLastAt(AntennaRest)
    /\ AntennaActive # AntennaRest
    /\ snd.state = "idle"

-----------------------------------------------------------------------------
(* reset() of the sound tracker (SpecSound) *)

\* the calls on the robot made by the last operation
IssuedByLastCall == SubSeq(snd.cmds, Len(op.before.cmds) + 1, Len(snd.cmds))

\* the last operation commanded the head to yaw 0
HeadCommandedToZero ==
    \E k \in 1..Len(IssuedByLastCall) : IssuedByLastCall[k].head_yaw = <<R(0)>>

\* the last operation commanded the body to yaw 0
BodyCommandedToZero ==
    \E k \in 1..Len(IssuedByLastCall) : IssuedByLastCall[k].body_yaw = <<R(0)>>

\* C25: reset(), called with the robot turned away from yaw 0, sets the
\* state to IDLE, zeroes current_yaw, target_yaw and the PID state, and
\* commands yaw 0 on every axis the mode drives: the head in HEAD mode, the
\* body in BODY mode, head and body in HYBRID mode.
C25_ResetCommandsNeutral ==
    (prog = "sound" /\ op.name = "reset" /\ op.before.current_yaw # R(0))
    => /\ snd.state = "idle"
       /\ snd.current_yaw = R(0) /\ snd.target_yaw = R(0)
       /\ snd.pid.integral = R(0) /\ snd.pid.last_error = R(0)
       /\ snd.mode \in {"head", "hybrid"} => HeadCommandedToZero
       /\ snd.mode \in {"body", "hybrid"} => BodyCommandedToZero

-----------------------------------------------------------------------------
(* Head and body of the hybrid mode (SpecSound) *)

\* the calls on the robot that carried a head pose / a body yaw
HeadCommands(issued) == SelectSeq(issued, LAMBDA c : c.head_yaw # None)
BodyCommands(issued) == SelectSeq(issued, LAMBDA c : c.body_yaw # None)

\* the head yaw last commanded, in degrees; 0 before any command
LastHeadYaw ==
    LET h == HeadCommands(snd.cmds)
    IN  IF h = <<>> THEN R(0) ELSE h[Len(h)].head_yaw[1]

\* the body yaw last commanded, in degrees; 0 before any command
LastBodyYaw ==
    LET b == BodyCommands(snd.cmds)
    IN  IF b = <<>> THEN R(0) ELSE Degrees(b[Len(b)].body_yaw[1])

\* C29: in hybrid mode, after every control tick (all calls on the robot
\* having succeeded) the head yaw last commanded plus the body yaw last
\* commanded is current_yaw.
C29_HeadPlusBodyIsYaw ==
    (/\ ControlTick /\ snd.mode = "hybrid"
     /\ \A k \in 1..Len(snd.cmds) : snd.cmds[k].ok)
    => RAdd(LastHeadYaw, LastBodyYaw) = snd.current_yaw

-----------------------------------------------------------------------------
(* The dead zone of the pid-only tracker (SpecOt) *)

\* the detection the last track() call steered by, and its errors
TrackedDetection == select_best_target(op.detections, FrameWidth, FrameHeight)
TrackedErrorX ==
    ErrorOf(Frac(TrackedDetection[1] + TrackedDetection[3], 2), FrameWidth)
TrackedErrorY ==
    ErrorOf(Frac(TrackedDetection[2] + TrackedDetection[4], 2), FrameHeight)

\* the commands issued by the last track() call
IssuedByTrack == SubSeq(ot.cmds, Len(op.before.cmds) + 1, Len(ot.cmds))

\* C26: with |error_x| < dead_zone every look-at command of the call has x
\* at the frame centre, with |error_y| < dead_zone it has y at the frame
\* centre; with both inside the dead zone the call issues no command and
\* leaves the PID state alone.
C26_DeadZonePerAxis ==
    (prog = "track" /\ op.name = "track" /\ op.detections # <<>>)
    => /\ RLt(RAbs(TrackedErrorX), ot.dead_zone) =>
             \A k \in 1..Len(IssuedByTrack) : IssuedByTrack[k].x = FrameWidth \div 2
       /\ RLt(RAbs(TrackedErrorY), ot.dead_zone) =>
             \A k \in 1..Len(IssuedByTrack) : IssuedByTrack[k].y = FrameHeight \div 2
       /\ (RLt(RAbs(TrackedErrorX), ot.dead_zone) /\ RLt(RAbs(TrackedErrorY), ot.dead_zone))
             => /\ IssuedByTrack = <<>>
                /\ ot.integral_x = op.before.integral_x
                /\ ot.integral_y = op.before.integral_y
                /\ ot.last_error_x = op.before.last_error_x
                /\ ot.last_error_y = op.before.last_error_y

-----------------------------------------------------------------------------
(* Samples pushed per frame by process_frame (SpecTrack) *)

\* the smaller of two numbers
Smaller(a, b) == IF a <= b THEN a ELSE b

\* C28: a processed frame with a detection pushes exactly one sample into
\* each window of the position filter: the windows grow by one, up to
\* window_size.
C28_OneSamplePerFrame ==
    (prog = "yolo" /\ op.name = "process_frame" /\ ret.center # None)
    => /\ Len(filt.x_history) =
             Smaller(Len(op.before.filter.x_history) + 1, filt.window_size)
       /\ Len(filt.y_history) =
             Smaller(Len(op.before.filter.y_history) + 1, filt.window_size)

-----------------------------------------------------------------------------
(* SpecWebApp: the web application as a process.  main.py and backend/api.py *)
(* each hold a module-level tracking_manager; th.main_manager and            *)
(* th.api_manager are these two globals (0 for None, else the number of the   *)
(* TrackingManager instance), th.constructed counts the instances made.      *)
(* The server runs the startup event before it serves requests, and one      *)
(* handler at a time.                                                        *)

MaxRequests == 4

App_init ==
    [started |-> FALSE,
     main_manager |-> 0,       \* main.tracking_manager
     api_manager |-> 0,        \* backend.api.tracking_manager
     initializing |-> FALSE,   \* backend.api.initializing
     constructed |-> 0]        \* TrackingManager() calls made

InitWebApp ==
    /\ prog = "webapp"
    /\ th = App_init
    /\ yaw = IdleYaw /\ pitch = IdlePitch /\ ot = IdleOt
    /\ filt = IdleFilt /\ vad = IdleVad /\ trk = IdleTrk
    /\ kal = IdleKal /\ snd = IdleSnd /\ exc = FALSE
    /\ now = StartTime
    /\ cmds = <<>>
    /\ op = [name |-> "init"]
    /\ ret = None
    /\ hist = <<>>
    /\ n = 0

\* get_tracking_manager of main.py: the state of the process after the call
\* and the instance returned
get_tracking_manager(app) ==
    IF app.main_manager = 0
    THEN [app |-> [app EXCEPT !.main_manager = app.constructed + 1,
                              !.constructed = @ + 1],
          ret |-> app.constructed + 1]
    ELSE [app |-> app, ret |-> app.main_manager]

\* get_manager of backend/api.py
get_manager(app) ==
    IF app.api_manager = 0 /\ ~app.initializing
    THEN [app |-> [app EXCEPT !.api_manager = app.constructed + 1,
                              !.constructed = @ + 1],
          ret |-> app.constructed + 1]
    ELSE [app |-> app, ret |-> app.api_manager]

\* is_ready of backend/api.py (a constructed manager is initialized)
is_ready(app) == app.api_manager # 0

\* the startup event of main.py
AppStartup ==
    /\ prog = "webapp" /\ ~th.started
    /\ th' = [get_tracking_manager(th).app EXCEPT !.started = TRUE]
    /\ op' = [name |-> "startup", manager |-> get_tracking_manager(th).ret]
    /\ ret' = None
    /\ hist' = Append(hist, "startup")
    /\ UNCHANGED <<prog, yaw, pitch, ot, filt, vad, trk, kal, snd, exc, now, cmds, n>>

\* GET /video
AppVideo ==
    /\ prog = "webapp" /\ th.started /\ n < MaxRequests
    /\ th' = get_tracking_manager(th).app
    /\ op' = [name |-> "video", manager |-> get_tracking_manager(th).ret]
    /\ ret' = None
    /\ hist' = Append(hist, "video")
    /\ n' = n + 1
    /\ UNCHANGED <<prog, yaw, pitch, ot, filt, vad, trk, kal, snd, exc, now, cmds>>

\* a request under /api whose handler calls get_manager(): /info, /classes,
\* /params, /control/start, /control/stop, /control/reset, /params/...
AppApi ==
    /\ prog = "webapp" /\ th.started /\ n < MaxRequests
    /\ \E endpoint \in {"info", "control/start", "control/stop", "params/yaw"} :
          /\ op' = [name |-> "api", endpoint |-> endpoint,
                    manager |-> get_manager(th).ret]
          /\ hist' = Append(hist, endpoint)
    /\ th' = get_manager(th).app
    /\ ret' = None
    /\ n' = n + 1
    /\ UNCHANGED <<prog, yaw, pitch, ot, filt, vad, trk, kal, snd, exc, now, cmds>>

\* GET /api/health and GET /api/: is_ready() only
AppApiHealth ==
    /\ prog = "webapp" /\ th.started /\ n < MaxRequests
    /\ op' = [name |-> "health", manager |-> 0]
    /\ ret' = <<is_ready(th)>>
    /\ hist' = Append(hist, "health")
    /\ n' = n + 1
    /\ UNCHANGED <<prog, th, yaw, pitch, ot, filt, vad, trk, kal, snd, exc, now, cmds>>

NextWebApp == AppStartup \/ AppVideo \/ AppApi \/ AppApiHealth

SpecWebApp == InitWebApp /\ [][NextWebApp]_vars

\* C30: at most one TrackingManager is constructed in the process, and the
\* video stream and the API handlers work on that one instance.
C30_OneTrackingManager ==
    prog = "webapp" =>
        /\ th.constructed <= 1
        /\ op.name \in {"startup", "video", "api"} => op.manager = 1

====
